---- MODULE Spec2Model ----
(***************************************************************************)
(* State-machine model of windows/start_menu_manager.ps1: the main loop,   *)
(* ENFORCE mode (Build_ConfigLookupTable, Scan_AndOrganizeShortcuts,       *)
(* Detect_MissingShortcuts, Detect_EmptyFolders, Display_EnforcePreview    *)
(* and the Execute_* functions) over a small Start Menu tree.              *)
(*                                                                         *)
(* A shortcut name is a sequence of tokens, the units the regular          *)
(* expressions of Normalize_ShortcutName act on: a word, a version         *)
(* (" v120"), a parenthesized qualifier (" (64-bit)"), a number suffix     *)
(* written by the quarantine numbering (" (1)") and the extension ".lnk".  *)
(* A path is a record [folder, name]; a folder is its path relative to     *)
(* $target, "Root" for $target itself (Get_RelativePath).                  *)
(***************************************************************************)
EXTENDS Integers, Sequences, FiniteSets, TLC

\* ------------------------------------------------------------------ bounds
MaxItems == 3
MaxConfigEntries == 2
MaxRuns == 2
SessionMaxItems == 1
FaultMaxItems == 2
SaveMaxItems == 3
QuarantineMaxItems == 3
CalMaxEvents == 2
CalMaxTasks == 2
ParallelMaxItems == 3
ThrottleLimit == 2
MaxSyncRuns == 2

\* ---------------------------------------------------------------- universe
Chrome == <<"Chrome", ".lnk">>
ChromeV120 == <<"Chrome", " v120", ".lnk">>
Chrome64 == <<"Chrome", " (64-bit)", ".lnk">>
VSCode == <<"VSCode", ".lnk">>

\* $null / the empty string: both are false in a PowerShell condition
NoKey == <<>>

Root == "Root"
Programs == "Programs"
ProgramsDev == "Programs\\Dev"
Other == "Other"
OtherSub == "Other\\Sub"
ProgramsStartup == "Programs\\Startup"

quarantineFolder == "Programs\\Unsorted"

Folders == {Root, Programs, ProgramsDev, ProgramsStartup, quarantineFolder, Other, OtherSub}

\* Split-Path -Parent, relative to $target
Parent(f) ==
    CASE f = Programs -> Root
      [] f = ProgramsDev -> Programs
      [] f = ProgramsStartup -> Programs
      [] f = quarantineFolder -> Programs
      [] f = Other -> Root
      [] f = OtherSub -> Other
      [] OTHER -> Root

\* $_.FullName.Split('\').Count, relative to $target
Depth(f) == IF f = Root THEN 0 ELSE IF Parent(f) = Root THEN 1 ELSE 2

RECURSIVE Ancestors(_)
Ancestors(f) == IF f = Root THEN {Root} ELSE {f} \cup Ancestors(Parent(f))

\* ------------------------------------------------- Normalize_ShortcutName
QualifierTokens ==
    {" (Preview)", " (Beta)", " (Insiders)", " (64-bit)", " (32-bit)", " (x64)", " (x86)"}
VersionTokens == {" v120", " v121", " 2025"}
NumberTokens == <<" (1)", " (2)", " (3)", " (4)", " (5)">>
SetupToken == " - Setup"
LnkToken == ".lnk"

IsNumberToken(t) == \E i \in 1..Len(NumberTokens) : NumberTokens[i] = t

RECURSIVE MapTokens(_, _)
MapTokens(s, i) ==
    IF i > Len(s) THEN <<>>
    ELSE LET t == s[i]
             rest == MapTokens(s, i + 1)
         IN  IF t \in VersionTokens THEN rest
             ELSE IF IsNumberToken(t) THEN <<" ()">> \o rest
             ELSE <<t>> \o rest

\* first -replace: the closed set of parenthesized qualifiers
StripQualifiers(name) == SelectSeq(name, LAMBDA t : t \notin QualifierTokens)
\* second -replace: \s*v?\d+(\.\d+)* ; it also eats the digits of " (1)"
StripVersionsWrong(name) == name
StripVersions(name) == MapTokens(name, 1)
\* third -replace: \s+-\s+Setup$ at the very end of the string
StripSetup(name) ==
    IF Len(name) > 0 /\ name[Len(name)] = SetupToken
    THEN SubSeq(name, 1, Len(name) - 1) ELSE name

Normalize_ShortcutName(name) ==
    LET n == StripSetup(StripVersions(StripQualifiers(name)))
        nEndsLnk == Len(n) > 0 /\ n[Len(n)] = LnkToken
        nameEndsLnk == Len(name) > 0 /\ name[Len(name)] = LnkToken
    IN  IF ~nEndsLnk /\ nameEndsLnk THEN n \o <<LnkToken>> ELSE n

\* "$baseName ($number)$extension"
NumberedName(name, number) ==
    IF Len(name) > 0 /\ name[Len(name)] = LnkToken
    THEN SubSeq(name, 1, Len(name) - 1) \o <<NumberTokens[number], LnkToken>>
    ELSE name \o <<NumberTokens[number]>>

\* ------------------------------------------------------------ config file
\* The config is { folderKey: { shortcutName: details } }. It is iterated in
\* file order; Scan_StartMenuShortcuts writes folders and shortcuts sorted.
FolderOrder == <<Other, OtherSub, Programs, ProgramsDev, ProgramsStartup, quarantineFolder, Root>>
NameOrder == <<Chrome64, ChromeV120, Chrome, VSCode>>

Details(name) ==
    IF name = VSCode THEN [TargetPath |-> ""] ELSE [TargetPath |-> "C:\\app.exe"]

\* the entries a config is drawn from; name NoKey: the folder key alone
ConfigCandidates ==
    { [folder |-> Programs, name |-> Chrome],
      [folder |-> Programs, name |-> Chrome64],
      [folder |-> ProgramsDev, name |-> Chrome],
      [folder |-> ProgramsDev, name |-> VSCode],
      [folder |-> ProgramsDev, name |-> NoKey],
      [folder |-> Root, name |-> ChromeV120] }

MkConfig(S) ==
    [f \in {e.folder : e \in S} |->
        [n \in {e.name : e \in {x \in S : x.folder = f /\ x.name # NoKey}} |-> Details(n)]]

RECURSIVE FlattenFolders(_, _)
FlattenFolders(cfg, i) ==
    IF i > Len(FolderOrder) THEN <<>>
    ELSE LET f == FolderOrder[i]
             here == IF f \in DOMAIN cfg
                     THEN LET ns == SelectSeq(NameOrder, LAMBDA n : n \in DOMAIN cfg[f])
                          IN  [k \in 1..Len(ns) |-> [Original |-> ns[k], Folder |-> f]]
                     ELSE <<>>
         IN  here \o FlattenFolders(cfg, i + 1)

\* foreach folderKey, foreach sc: the (Original, Folder) pairs in file order
ConfigEntries(cfg) == FlattenFolders(cfg, 1)

\* --------------------------------------------------------- Ensure_Folder
\* New-Item -Force creates the missing parents too. The result is the pair
\* (folders on disk, $script:createdFolders).
Ensure_Folder(path, d, created) ==
    IF path \notin created
    THEN [dirs |-> IF path \notin d THEN d \cup Ancestors(path) ELSE d,
          created |-> created \cup {path}]
    ELSE [dirs |-> d, created |-> created]

RECURSIVE EnsureConfigFolders(_, _, _, _)
EnsureConfigFolders(keys, i, d, created) ==
    IF i > Len(keys) THEN [dirs |-> d, created |-> created]
    ELSE LET r == IF keys[i] # Root THEN Ensure_Folder(keys[i], d, created)
                  ELSE [dirs |-> d, created |-> created]
         IN  EnsureConfigFolders(keys, i + 1, r.dirs, r.created)

\* ------------------------------------------------ Build_ConfigLookupTable
\* normalized name -> array of @{Original; Folder}
AllConfigShortcutsOf(cfg) ==
    LET es == ConfigEntries(cfg)
    IN  [norm \in {Normalize_ShortcutName(es[i].Original) : i \in 1..Len(es)} |->
            SelectSeq(es, LAMBDA e : Normalize_ShortcutName(e.Original) = norm)]

\* a table keyed by the canonical key alone
KeyToUseNorm(all, sc) == Normalize_ShortcutName(sc)

\* full name for variants, normalized for unique
KeyToUse(all, sc) ==
    LET norm == Normalize_ShortcutName(sc)
    IN  IF Len(all[norm]) > 1 THEN sc ELSE norm

\* $expectedMap[$keyToUse] = $folderKey, in file order: the last one stays
ExpectedMapOf(cfg) ==
    LET es == ConfigEntries(cfg)
        all == AllConfigShortcutsOf(cfg)
        last(k) == CHOOSE i \in 1..Len(es) :
                      /\ KeyToUse(all, es[i].Original) = k
                      /\ \A j \in 1..Len(es) : KeyToUse(all, es[j].Original) = k => j <= i
    IN  [k \in {KeyToUse(all, es[i].Original) : i \in 1..Len(es)} |-> es[last(k)].Folder]

\* "$folderKey\$sc" -> details
ShortcutDetailsMapOf(cfg) ==
    LET es == ConfigEntries(cfg)
    IN  [p \in {<<es[i].Folder, es[i].Original>> : i \in 1..Len(es)} |-> cfg[p[1]][p[2]]]

Build_ConfigLookupTable(cfg) ==
    [AllConfigShortcuts |-> AllConfigShortcutsOf(cfg),
     ExpectedMap |-> ExpectedMapOf(cfg),
     ShortcutDetailsMap |-> ShortcutDetailsMapOf(cfg)]

\* --------------------------------------------------- Get_ShortcutMatchKey
\* the function without its variant case: every name resolves by its
\* canonical key first
Get_ShortcutMatchKeyByNorm(shortcutName, AllConfigShortcuts, ExpectedMap) ==
    LET norm == Normalize_ShortcutName(shortcutName)
    IN  IF norm \in DOMAIN ExpectedMap THEN norm
        ELSE IF shortcutName \in DOMAIN ExpectedMap THEN shortcutName
        ELSE NoKey

Get_ShortcutMatchKey(shortcutName, AllConfigShortcuts, ExpectedMap) ==
    LET norm == Normalize_ShortcutName(shortcutName)
    IN  IF norm \in DOMAIN AllConfigShortcuts /\ Len(AllConfigShortcuts[norm]) > 1
        THEN \* VARIANT CASE
             IF shortcutName \in DOMAIN ExpectedMap THEN shortcutName ELSE NoKey
        ELSE \* NORMAL CASE
             IF norm \in DOMAIN ExpectedMap THEN norm
             ELSE IF shortcutName \in DOMAIN ExpectedMap THEN shortcutName
             ELSE NoKey

\* ---------------------------------------------- Scan_AndOrganizeShortcuts
NoFolder == ""

\* the for loop from the end with RemoveAt and break: the last planned move
\* whose Source is src goes
RECURSIVE RemoveLastWithSource(_, _, _)
RemoveLastWithSource(moves, src, i) ==
    IF i < 1 THEN moves
    ELSE IF moves[i].Source = src
         THEN SubSeq(moves, 1, i - 1) \o SubSeq(moves, i + 1, Len(moves))
         ELSE RemoveLastWithSource(moves, src, i - 1)

MoveAction(item, relFolder) ==
    [Type |-> "Move", Source |-> item,
     Destination |-> [folder |-> relFolder, name |-> item.name],
     Name |-> item.name, NewName |-> NoKey,
     CurrentFolder |-> item.folder, DestFolder |-> relFolder]

QuarantineActionAsMove(item) == MoveAction(item, quarantineFolder)
QuarantineAction(item) ==
    [Type |-> "Quarantine", Source |-> item,
     Destination |-> [folder |-> quarantineFolder, name |-> item.name],
     Name |-> item.name, NewName |-> NoKey,
     CurrentFolder |-> item.folder, DestFolder |-> quarantineFolder]

NumberedQuarantineAction(item, number) ==
    [Type |-> "Quarantine", Source |-> item,
     Destination |-> [folder |-> quarantineFolder, name |-> NumberedName(item.name, number)],
     Name |-> item.name, NewName |-> NumberedName(item.name, number),
     CurrentFolder |-> item.folder, DestFolder |-> quarantineFolder]

DeleteAction(item, correctFolder) ==
    [Path |-> item, Name |-> item.name, Folder |-> item.folder, CorrectFolder |-> correctFolder]

\* a counter that is created at 1 and never incremented
BumpCounterStuck(counter, norm) ==
    [k \in DOMAIN counter \cup {norm} |-> IF k = norm THEN 1 ELSE counter[k]]

\* $quarantineCounter[$norm]++ (created at 0 when absent)
BumpCounter(counter, norm) ==
    IF norm \in DOMAIN counter
    THEN [counter EXCEPT ![norm] = @ + 1]
    ELSE [k \in DOMAIN counter \cup {norm} |-> IF k = norm THEN 1 ELSE counter[k]]

SetIndex(index, key, item) ==
    [k \in DOMAIN index \cup {key} |-> IF k = key THEN item ELSE index[k]]

\* One iteration of  foreach ($item in $allShortcuts)  on the loop's locals
\* st = [actualIndex, processed, plannedMoves, plannedDeletes, foldersToCheck,
\* quarantineCounter].
ProcessItem(item, st, AllConfigShortcuts, ExpectedMap) ==
    LET norm == Normalize_ShortcutName(item.name)
        matchKey == Get_ShortcutMatchKey(item.name, AllConfigShortcuts, ExpectedMap)
        indexKey == IF matchKey # NoKey /\ matchKey = item.name THEN item.name ELSE norm
        \* lines 828-869: index the item, then Move / Quarantine it
        IndexAndPlace(s) ==
            LET s1 == [s EXCEPT !.actualIndex = SetIndex(s.actualIndex, indexKey, item)]
            IN  IF matchKey # NoKey
                THEN LET relFolder == ExpectedMap[matchKey]
                         destPath == [folder |-> relFolder, name |-> item.name]
                     IN  IF item # destPath
                         THEN [s1 EXCEPT !.plannedMoves = Append(@, MoveAction(item, relFolder)),
                                         !.foldersToCheck = @ \cup {item.folder},
                                         !.processed = @ \cup {matchKey}]
                         ELSE [s1 EXCEPT !.processed = @ \cup {matchKey}]
                ELSE IF item # [folder |-> quarantineFolder, name |-> item.name]
                     THEN [s1 EXCEPT !.plannedMoves = Append(@, QuarantineAction(item))]
                     ELSE s1
    IN  IF indexKey \notin DOMAIN st.actualIndex THEN IndexAndPlace(st)
        ELSE
        LET existing == st.actualIndex[indexKey]
            existingKey == Get_ShortcutMatchKey(existing.name, AllConfigShortcuts, ExpectedMap)
            correctFolder ==
                IF matchKey # NoKey /\ matchKey \in DOMAIN ExpectedMap THEN ExpectedMap[matchKey]
                ELSE IF existingKey # NoKey /\ existingKey \in DOMAIN ExpectedMap
                     THEN ExpectedMap[existingKey] ELSE NoFolder
            itemFolder == item.folder
            existingFolder == existing.folder
            deleteCurrent ==
                [st EXCEPT !.plannedDeletes = Append(@, DeleteAction(item, correctFolder)),
                           !.foldersToCheck = @ \cup {item.folder}]
            counter == BumpCounter(st.quarantineCounter, norm)
            number == counter[norm]
            itemInQuarantine == item.folder = quarantineFolder
            existingInQuarantine == existing.folder = quarantineFolder
            numberCurrent ==
                [st EXCEPT !.quarantineCounter = counter,
                           !.plannedMoves = Append(@, NumberedQuarantineAction(item, number))]
        IN  IF correctFolder # NoFolder
            THEN \* known shortcuts (in config)
                 IF itemFolder # correctFolder /\ existingFolder = correctFolder
                 THEN deleteCurrent
                 ELSE IF existingFolder # correctFolder /\ itemFolder = correctFolder
                 THEN IndexAndPlace([st EXCEPT
                        !.plannedMoves = RemoveLastWithSource(@, existing, Len(@)),
                        !.plannedDeletes = Append(@, DeleteAction(existing, correctFolder)),
                        !.foldersToCheck = @ \cup {existing.folder},
                        !.actualIndex = SetIndex(@, indexKey, item)])
                 ELSE deleteCurrent
            ELSE \* unknown shortcuts: quarantine with numbered names
                 IF existingInQuarantine /\ ~itemInQuarantine
                 THEN numberCurrent
                 ELSE IF itemInQuarantine /\ ~existingInQuarantine
                 THEN IndexAndPlace([st EXCEPT
                        !.quarantineCounter = counter,
                        !.plannedMoves =
                            Append(RemoveLastWithSource(@, existing, Len(@)),
                                   NumberedQuarantineAction(existing, number)),
                        !.actualIndex = SetIndex(@, indexKey, item)])
                 ELSE numberCurrent

EmptyScanState ==
    [actualIndex |-> <<>>, processed |-> {}, plannedMoves |-> <<>>,
     plannedDeletes |-> <<>>, foldersToCheck |-> {}, quarantineCounter |-> <<>>]

\* ------------------------------------------------- Detect_MissingShortcuts
\* foreach ($normName in $ExpectedMap.Keys); the hashtable's enumeration order
\* is taken to be NameOrder
Detect_MissingShortcuts(ExpectedMap, Processed, ShortcutDetailsMap) ==
    LET keys == SelectSeq(NameOrder, LAMBDA k : k \in DOMAIN ExpectedMap /\ k \notin Processed)
        recreatable(k) ==
            LET detailKey == <<ExpectedMap[k], k>>
            IN  /\ detailKey \in DOMAIN ShortcutDetailsMap
                /\ ShortcutDetailsMap[detailKey].TargetPath # ""
        ks == SelectSeq(keys, recreatable)
    IN  [i \in 1..Len(ks) |->
            [Name |-> ks[i], Folder |-> ExpectedMap[ks[i]],
             Details |-> ShortcutDetailsMap[<<ExpectedMap[ks[i]], ks[i]>>]]]

\* ----------------------------------------------------- Detect_EmptyFolders
\* Get-ChildItem -Directory -Recurse | Sort-Object depth -Descending
RECURSIVE FoldersDeepestFirst(_, _)
FoldersDeepestFirst(d, depth) ==
    IF depth < 1 THEN <<>>
    ELSE SelectSeq(FolderOrder, LAMBDA f : f \in d /\ Depth(f) = depth)
         \o FoldersDeepestFirst(d, depth - 1)

DeepestLevel == CHOOSE n \in {Depth(f) : f \in Folders} : \A f \in Folders : Depth(f) <= n

\* Get-ChildItem -Path $folder -Force: the shortcuts and the subfolders in it
ChildPaths(folder, fs, d) ==
    {[kind |-> "file", folder |-> x.folder, name |-> x.name] :
        x \in {y \in fs : y.folder = folder}}
    \cup {[kind |-> "dir", folder |-> g, name |-> NoKey] :
            g \in {h \in d : h # Root /\ Parent(h) = folder}}

WillBeEmpty(folder, fs, d, PlannedMoves) ==
    LET items == ChildPaths(folder, fs, d)
        movingOut == {PlannedMoves[i].Source : i \in
                        {j \in 1..Len(PlannedMoves) : PlannedMoves[j].Source.folder = folder}}
        remaining == {it \in items :
                        ~(it.kind = "file" /\ [folder |-> it.folder, name |-> it.name] \in movingOut)}
    IN  \/ items = {}
        \/ /\ movingOut # {}
           /\ remaining = {}

SlatedWithoutConfigCheck(folder, cfg, fs, d, PlannedMoves) ==
    /\ folder \notin {PlannedMoves[i].Destination.folder : i \in 1..Len(PlannedMoves)}
    /\ WillBeEmpty(folder, fs, d, PlannedMoves)
Slated(folder, cfg, fs, d, PlannedMoves) ==
    /\ folder \notin (DOMAIN cfg \ {Root})
    /\ folder \notin {PlannedMoves[i].Destination.folder : i \in 1..Len(PlannedMoves)}
    /\ WillBeEmpty(folder, fs, d, PlannedMoves)

Detect_EmptyFolders(cfg, fs, d, PlannedMoves) ==
    LET all == FoldersDeepestFirst(d \ {Root}, DeepestLevel)
        hit == SelectSeq(all, LAMBDA f : Slated(f, cfg, fs, d, PlannedMoves))
    IN  [i \in 1..Len(hit) |-> [Path |-> hit[i], DisplayFolder |-> hit[i]]]

\* ------------------------------------------------------------------ state
VARIABLES
    config,            \* StartMenuConfig.json as ConvertFrom-Json reads it
    configFile,        \* the file at $configPath: "ok", "missing" or "invalid" (not JSON)
    files,             \* the .lnk files under $target, as [folder, name]
    dirs,              \* the folders under $target (and Root)
    Auto,              \* the -Auto switch of this process
    isAdmin,           \* this process runs as administrator
    currentMode,       \* $currentMode
    dryRun,            \* $dryRun
    interactiveMode,   \* $interactiveMode
    createdFolders,    \* $script:createdFolders
    pc,                \* where the script is
    configData,        \* $configData of Invoke_EnforceMode
    pending,           \* the items of $allShortcuts the foreach has not reached
    scan,              \* the locals of Scan_AndOrganizeShortcuts ($scanResults)
    missingShortcuts,  \* $missingShortcuts
    emptyFoldersToDelete, \* $emptyFoldersToDelete
    phase,             \* the executor's phase, 1..5
    idx,               \* the executor's position in the phase's list
    successCount,      \* $successCount
    errorCount,        \* $errorCount
    faults,            \* whether filesystem calls may fail for outside reasons
    runs,              \* Enforce runs started so far
    startedAuto,       \* history: the operator's command line had -Auto
    files0,            \* history: files when the current Enforce run began
    dirs0,             \* history: dirs when the current Enforce run began
    skipCount,         \* history: folder deletes skipped (folder not empty) in this run
    lastRun,           \* history: how the previous Enforce run ended
    attempted,         \* history: the actions the executor has attempted in this
                       \* run, in order, as [kind, outcome]
    consoleWidth,      \* $script:consoleWidth
    sortedTree,        \* $sortedTree of Invoke_SaveMode while it waits at its prompt
    shown,             \* what the last Display_Config wrote: the folder blocks
    seen,              \* the items of $allShortcuts the foreach has handled, in
                       \* its order, while Scan_AndOrganizeShortcuts runs
    calEvents,         \* calendar_to_task.js: the events of the calendar in the range,
                       \* as [title, date, color, recurring], in getEvents order
    taskList,          \* the task list at Google, as [id, title, status]
    nextId,            \* the id Google gives the next inserted task
    cpc,               \* where syncCalendarAndTasks is
    tasks,             \* const tasks: the list as listAllTasks returned it
    taskKeys,          \* const taskKeys
    ei,                \* position of Phase 1's for loop in events
    ti,                \* position of Phase 2's for loop in tasks
    markedCompleted,   \* let markedCompleted
    calEvents0,        \* history: the events when the run began
    insertLog,         \* history: the calls of insertTask in this run, in order, as
                       \* [title, event (its position in events), outcome]
    syncRuns,          \* history: the calls of syncCalendarAndTasks so far
    shortcuts,         \* Scan_StartMenuShortcuts on PowerShell 7: the items of
                       \* $shortcuts not yet handed to a runspace
    workers,           \* the runspaces of ForEach-Object -Parallel: what each is at
    results,           \* $results, the ConcurrentBag
    scanTree,          \* $tree
    returned,          \* the value Scan_StartMenuShortcuts returned
    spc                \* where Scan_StartMenuShortcuts is

vars == <<config, configFile, files, dirs, Auto, isAdmin, currentMode, dryRun, interactiveMode,
          createdFolders, pc, configData, pending, scan, missingShortcuts,
          emptyFoldersToDelete, phase, idx, successCount, errorCount, faults, runs,
          startedAuto, files0, dirs0, skipCount, lastRun, attempted,
          consoleWidth, sortedTree, shown, seen,
          calEvents, taskList, nextId, cpc, tasks, taskKeys, ei, ti, markedCompleted,
          calEvents0, insertLog, syncRuns,
          shortcuts, workers, results, scanTree, returned, spc>>

diskVars == <<files, dirs>>
processVars == <<Auto, isAdmin, dryRun, interactiveMode>>
planVars == <<configData, pending, scan, missingShortcuts, emptyFoldersToDelete>>
execVars == <<phase, idx, successCount, errorCount>>
historyVars == <<startedAuto, files0, dirs0, skipCount, lastRun>>
displayVars == <<consoleWidth, sortedTree, shown>>
calVars == <<calEvents, taskList, nextId, cpc, tasks, taskKeys, ei, ti, markedCompleted,
             calEvents0, insertLog, syncRuns>>
parVars == <<shortcuts, workers, results, scanTree, returned, spc>>
startMenuVars == <<config, configFile, diskVars, processVars, currentMode, createdFolders, pc,
                   planVars, execVars, runs, historyVars, attempted, displayVars, seen>>

NoMode == ""

\* lines 21-31: the run mode from the parameters
RunModeSelection(auto, mode) ==
    IF auto
    THEN [currentMode |-> "ENFORCE", dryRun |-> FALSE, interactiveMode |-> FALSE]
    ELSE [currentMode |-> mode, dryRun |-> TRUE, interactiveMode |-> TRUE]

\* ------------------------------------------------------------------- Init
FileCandidates ==
    { [folder |-> Root, name |-> Chrome],
      [folder |-> Root, name |-> ChromeV120],
      [folder |-> Programs, name |-> Chrome],
      [folder |-> Programs, name |-> ChromeV120],
      [folder |-> Programs, name |-> Chrome64],
      [folder |-> ProgramsDev, name |-> VSCode],
      [folder |-> quarantineFolder, name |-> Chrome],
      [folder |-> OtherSub, name |-> Chrome],
      [folder |-> OtherSub, name |-> ChromeV120] }

ExtraDirChoices == {{}, {OtherSub}}

\* line 19: the window's width, 120 when the host has none
DefaultWidth == 120
ConsoleWidths == {40, 60, DefaultWidth}

DirClosure(fs) == UNION {Ancestors(f) : f \in fs} \cup {Root}

Configs == {MkConfig(S) : S \in {T \in SUBSET ConfigCandidates : Cardinality(T) <= MaxConfigEntries}}

Trees(n) == {T \in SUBSET FileCandidates : Cardinality(T) <= n}

\* line 1360: ConvertFrom-Json fails on a file that is not JSON; the error ends
\* that statement only ($ErrorActionPreference is not set), $configRaw stays
\* $null and the script goes on: $null.PSObject.Properties.Name is empty
ConfigRawOf(file, content) == IF file = "ok" THEN content ELSE MkConfig({})

ConfigFiles == {"ok", "missing", "invalid"}

\* ForEach-Object -Parallel ... -ThrottleLimit 5 (line 241); the model runs
\* ThrottleLimit runspaces
Runspaces == 1..ThrottleLimit

NoItem == [folder |-> NoFolder, name |-> NoKey]

\* a runspace that has no item
Idle == [step |-> "idle", item |-> NoItem, details |-> <<>>]

\* Scan_StartMenuShortcuts has not been called
ScanNotStarted ==
    /\ shortcuts = {}
    /\ workers = [w \in Runspaces |-> Idle]
    /\ results = {}
    /\ scanTree = <<>>
    /\ returned = <<>>
    /\ spc = "idle"

InitFrom(trees, invocations, admins, extras) ==
    /\ ScanNotStarted
    /\ configFile \in ConfigFiles
    /\ \E content \in Configs :
          /\ configFile # "ok" => content = MkConfig({})
          /\ config = ConfigRawOf(configFile, content)
    /\ files \in trees
    /\ \E extra \in extras : dirs = DirClosure({x.folder : x \in files} \cup extra)
    /\ \E inv \in invocations :
          /\ Auto = inv.Auto
          /\ currentMode = RunModeSelection(inv.Auto, inv.Mode).currentMode
          /\ dryRun = RunModeSelection(inv.Auto, inv.Mode).dryRun
          /\ interactiveMode = RunModeSelection(inv.Auto, inv.Mode).interactiveMode
          /\ startedAuto = inv.Auto
    /\ isAdmin \in admins
    /\ createdFolders = {}
    /\ pc = "loop"
    /\ configData = Build_ConfigLookupTable(<<>>)
    /\ pending = {}
    /\ scan = EmptyScanState
    /\ missingShortcuts = <<>>
    /\ emptyFoldersToDelete = <<>>
    /\ phase = 0
    /\ idx = 0
    /\ successCount = 0
    /\ errorCount = 0
    /\ runs = 0
    /\ files0 = files
    /\ dirs0 = dirs
    /\ skipCount = 0
    /\ lastRun = "none"
    /\ attempted = <<>>
    /\ sortedTree = MkConfig({})
    /\ shown = <<>>
    /\ seen = <<>>

InitWith(n, invocations, admins, extras) == InitFrom(Trees(n), invocations, admins, extras)

\* calendar_to_task.js before a run: nothing fetched yet
SyncNotStarted ==
    /\ cpc = "idle"
    /\ nextId = Len(taskList) + 1
    /\ tasks = <<>>
    /\ taskKeys = {}
    /\ ei = 0
    /\ ti = 0
    /\ markedCompleted = 0
    /\ calEvents0 = calEvents
    /\ insertLog = <<>>
    /\ syncRuns = 0

\* the Start Menu script on a machine whose calendar script is not looked at
NoCalendar ==
    /\ calEvents = <<>>
    /\ taskList = <<>>
    /\ SyncNotStarted

\* the scheduled task: -Auto, "Run with highest privileges"
Init ==
    /\ NoCalendar
    /\ InitWith(MaxItems, {[Auto |-> TRUE, Mode |-> NoMode]}, {TRUE}, ExtraDirChoices)
    /\ faults = FALSE
    /\ consoleWidth = DefaultWidth

\* the scheduled task when Move-Item, Save, Remove-Item can throw
InitFaults ==
    /\ NoCalendar
    /\ InitWith(FaultMaxItems, {[Auto |-> TRUE, Mode |-> NoMode]}, {TRUE}, ExtraDirChoices)
    /\ faults = TRUE
    /\ consoleWidth = DefaultWidth

\* every way to start the script for Enforce
InitSession ==
    /\ NoCalendar
    /\ InitWith(SessionMaxItems,
                {[Auto |-> TRUE, Mode |-> NoMode], [Auto |-> FALSE, Mode |-> NoMode],
                 [Auto |-> FALSE, Mode |-> "ENFORCE"]},
                BOOLEAN, ExtraDirChoices)
    /\ faults = FALSE
    /\ consoleWidth = DefaultWidth

\* shortcuts of one canonical key in and around the quarantine folder
QuarantineCandidates ==
    { [folder |-> quarantineFolder, name |-> Chrome],
      [folder |-> quarantineFolder, name |-> ChromeV120],
      [folder |-> Root, name |-> Chrome],
      [folder |-> Root, name |-> ChromeV120],
      [folder |-> OtherSub, name |-> Chrome64],
      [folder |-> ProgramsDev, name |-> VSCode] }

\* the scheduled task on a tree whose quarantine folder is in use
InitQuarantine ==
    /\ NoCalendar
    /\ InitFrom({T \in SUBSET QuarantineCandidates : Cardinality(T) <= QuarantineMaxItems},
                {[Auto |-> TRUE, Mode |-> NoMode]}, {TRUE}, {{}})
    /\ faults = FALSE
    /\ consoleWidth = DefaultWidth

\* -Mode SAVE or -Mode READ in a window of some width
InitSave ==
    /\ NoCalendar
    /\ InitWith(SaveMaxItems,
                {[Auto |-> FALSE, Mode |-> "SAVE"], [Auto |-> FALSE, Mode |-> "READ"]},
                {FALSE}, {{}, {ProgramsStartup}})
    /\ faults = FALSE
    /\ consoleWidth \in ConsoleWidths

\* ------------------------------------------------------------- main loop
\* line 1452: the menu is shown; the script blocks in ReadKey
ShowMenu ==
    /\ pc = "loop"
    /\ UNCHANGED <<calVars, parVars, seen>>
    /\ interactiveMode /\ currentMode = NoMode
    /\ pc' = "menu"
    /\ UNCHANGED <<config, configFile, displayVars, attempted, diskVars, processVars, currentMode, createdFolders, planVars,
                   execVars, faults, runs, historyVars>>

\* Show_ModeMenu returns on '1'..'4'; another key asks again
MenuKey ==
    /\ pc = "menu"
    /\ UNCHANGED <<calVars, parVars, seen>>
    /\ \E choice \in {"1", "2", "3", "4", "x"} :
          CASE choice = "1" ->
                  /\ currentMode' = "READ"
                  /\ pc' = "loop"
            [] choice = "2" ->
                  /\ currentMode' = "SAVE"
                  /\ pc' = "loop"
            [] choice = "3" ->
                  /\ runs < MaxRuns
                  /\ currentMode' = "ENFORCE"
                  /\ pc' = "loop"
            [] choice = "4" ->
                  /\ currentMode' = "EXIT"
                  /\ pc' = "exited"
            [] OTHER ->
                  /\ currentMode' = currentMode
                  /\ pc' = "menu"
    /\ UNCHANGED <<config, configFile, displayVars, attempted, diskVars, processVars, createdFolders, planVars, execVars,
                   faults, runs, historyVars>>

\* lines 1460-1476: not an administrator: start the script again elevated with
\* -Mode $currentMode and exit. The model goes on as the elevated process.
Elevate ==
    /\ pc = "loop"
    /\ UNCHANGED <<calVars, parVars, seen>>
    /\ currentMode = "ENFORCE" /\ ~isAdmin
    /\ Auto' = FALSE
    /\ isAdmin' = TRUE
    /\ currentMode' = RunModeSelection(FALSE, currentMode).currentMode
    /\ dryRun' = RunModeSelection(FALSE, currentMode).dryRun
    /\ interactiveMode' = RunModeSelection(FALSE, currentMode).interactiveMode
    /\ createdFolders' = {}
    /\ pc' = "loop"
    /\ UNCHANGED <<config, configFile, displayVars, attempted, diskVars, planVars, execVars, faults, runs, historyVars>>

\* line 1358: throw "Config not found"; nothing catches it, the script ends
ConfigNotFound ==
    /\ pc = "loop"
    /\ UNCHANGED <<calVars, parVars, seen>>
    /\ currentMode = "ENFORCE" /\ isAdmin
    /\ configFile = "missing"
    /\ pc' = "exited"
    /\ lastRun' = "fatal"
    /\ UNCHANGED <<config, configFile, displayVars, attempted, diskVars, processVars, currentMode, createdFolders,
                   planVars, execVars, faults, runs, startedAuto, files0, dirs0, skipCount>>

\* Invoke_EnforceMode up to the snapshot of Scan_AndOrganizeShortcuts:
\* Build_ConfigLookupTable (which creates the config's folders), Get-ChildItem
StartEnforce ==
    /\ pc = "loop"
    /\ UNCHANGED <<calVars, parVars>>
    /\ currentMode = "ENFORCE" /\ isAdmin
    /\ runs < MaxRuns
    /\ configFile # "missing"
    /\ LET keys == SelectSeq(FolderOrder, LAMBDA f : f \in DOMAIN config)
           r == EnsureConfigFolders(keys, 1, dirs, createdFolders)
       IN  /\ dirs' = r.dirs
           /\ createdFolders' = r.created
    /\ configData' = Build_ConfigLookupTable(config)
    /\ pending' = files
    /\ scan' = EmptyScanState
    /\ missingShortcuts' = <<>>
    /\ emptyFoldersToDelete' = <<>>
    /\ phase' = 0 /\ idx' = 0 /\ successCount' = 0 /\ errorCount' = 0
    /\ runs' = runs + 1
    /\ files0' = files
    /\ dirs0' = dirs
    /\ skipCount' = 0
    /\ attempted' = <<>>
    /\ seen' = <<>>
    /\ pc' = "scan"
    /\ UNCHANGED <<config, configFile, displayVars, files, processVars, currentMode, faults, startedAuto, lastRun>>

\* one iteration of the foreach of Scan_AndOrganizeShortcuts, in any order
ScanItem ==
    /\ pc = "scan"
    /\ UNCHANGED <<calVars, parVars>>
    /\ \E item \in pending :
          /\ scan' = ProcessItem(item, scan, configData.AllConfigShortcuts, configData.ExpectedMap)
          /\ pending' = pending \ {item}
          /\ seen' = Append(seen, item)
    /\ UNCHANGED <<config, configFile, displayVars, attempted, diskVars, processVars, currentMode, createdFolders, pc, configData,
                   missingShortcuts, emptyFoldersToDelete, execVars, faults, runs, historyVars>>

DetectMissing ==
    /\ pc = "scan"
    /\ UNCHANGED <<calVars, parVars>>
    /\ pending = {}
    /\ seen' = <<>>
    /\ missingShortcuts' =
          Detect_MissingShortcuts(configData.ExpectedMap, scan.processed,
                                  configData.ShortcutDetailsMap)
    /\ pc' = "empty"
    /\ UNCHANGED <<config, configFile, displayVars, attempted, diskVars, processVars, currentMode, createdFolders, configData,
                   pending, scan, emptyFoldersToDelete, execVars, faults, runs, historyVars>>

DetectEmpty ==
    /\ pc = "empty"
    /\ UNCHANGED <<calVars, parVars, seen>>
    /\ emptyFoldersToDelete' = Detect_EmptyFolders(config, files, dirs, scan.plannedMoves)
    /\ pc' = "planned"
    /\ UNCHANGED <<config, configFile, displayVars, attempted, diskVars, processVars, currentMode, createdFolders, configData,
                   pending, scan, missingShortcuts, execVars, faults, runs, historyVars>>

hasChanges ==
    \/ Len(scan.plannedMoves) > 0
    \/ Len(scan.plannedDeletes) > 0
    \/ Len(emptyFoldersToDelete) > 0
    \/ Len(missingShortcuts) > 0

\* lines 1413 and 1425
regularMoves == SelectSeq(scan.plannedMoves, LAMBDA m : m.Type = "Move")
quarantineMoves == SelectSeq(scan.plannedMoves, LAMBDA m : m.Type = "Quarantine")

\* lines 1410-1439: moves, recreations, quarantines, duplicate deletes, folder deletes
PhaseList(k) ==
    CASE k = 1 -> regularMoves
      [] k = 2 -> missingShortcuts
      [] k = 3 -> quarantineMoves
      [] k = 4 -> scan.plannedDeletes
      [] k = 5 -> emptyFoldersToDelete
      [] OTHER -> <<>>

\* an executor that attempts the first action of each phase only
RECURSIVE NextPosFirstOnly(_, _)
NextPosFirstOnly(k, i) ==
    IF k > 5 THEN [phase |-> 6, idx |-> 1]
    ELSE IF i = 1 /\ Len(PhaseList(k)) >= 1 THEN [phase |-> k, idx |-> 1]
    ELSE NextPosFirstOnly(k + 1, 1)

RECURSIVE NextPos(_, _)
NextPos(k, i) ==
    IF k > 5 THEN [phase |-> 6, idx |-> 1]
    ELSE IF i <= Len(PhaseList(k)) THEN [phase |-> k, idx |-> i]
    ELSE NextPos(k + 1, 1)

\* lines 1383-1386
NoChanges ==
    /\ pc = "planned"
    /\ UNCHANGED <<calVars, parVars, seen>>
    /\ ~hasChanges
    /\ pc' = "after"
    /\ lastRun' = "nochange"
    /\ UNCHANGED <<config, configFile, displayVars, attempted, diskVars, processVars, currentMode, createdFolders, planVars,
                   execVars, faults, runs, startedAuto, files0, dirs0, skipCount>>

\* Display_EnforcePreview with $DryRun: the summary, then Read-Host blocks
Preview ==
    /\ pc = "planned"
    /\ UNCHANGED <<calVars, parVars, seen>>
    /\ hasChanges /\ dryRun
    /\ pc' = "prompt"
    /\ UNCHANGED <<config, configFile, displayVars, attempted, diskVars, processVars, currentMode, createdFolders, planVars,
                   execVars, faults, runs, historyVars>>

BeginExecution ==
    /\ phase' = NextPos(1, 1).phase
    /\ idx' = NextPos(1, 1).idx
    /\ successCount' = 0
    /\ errorCount' = 0
    /\ pc' = "exec"
    /\ attempted' = <<>>

\* the operator's answer: only Y or y proceeds
Answer ==
    /\ pc = "prompt"
    /\ UNCHANGED <<calVars, parVars, seen>>
    /\ \E response \in {"Y", "y", "N", ""} :
          IF response = "Y" \/ response = "y"
          THEN BeginExecution /\ lastRun' = lastRun
          ELSE /\ pc' = "after"
               /\ lastRun' = "cancelled"
               /\ UNCHANGED <<execVars, attempted>>
    /\ UNCHANGED <<config, configFile, displayVars, diskVars, processVars, currentMode, createdFolders, planVars,
                   faults, runs, startedAuto, files0, dirs0, skipCount>>

\* Display_EnforcePreview without $DryRun returns $true
ProceedUnattended ==
    /\ pc = "planned"
    /\ UNCHANGED <<calVars, parVars, seen>>
    /\ hasChanges /\ ~dryRun
    /\ BeginExecution
    /\ UNCHANGED <<config, configFile, displayVars, diskVars, processVars, currentMode, createdFolders, planVars,
                   faults, runs, historyVars>>

\* --------------------------------------------------------------- executor
\* one pass of a try block: what was attempted and how it ended
Attempt(kind, outcome) == [kind |-> kind, outcome |-> outcome]

FaultChoices == IF faults THEN {FALSE, TRUE} ELSE {FALSE}

\* an executor that gives up at the first error
AdvanceAbortOnError ==
    IF errorCount' > errorCount
    THEN phase' = 6 /\ idx' = 1
    ELSE /\ phase' = NextPos(phase, idx + 1).phase
         /\ idx' = NextPos(phase, idx + 1).idx

Advance ==
    /\ phase' = NextPos(phase, idx + 1).phase
    /\ idx' = NextPos(phase, idx + 1).idx

\* one iteration of the foreach of Execute_ShortcutMoves
DoMove(move, fault) ==
    LET e == Ensure_Folder(move.Destination.folder, dirs, createdFolders)
        ok == ~fault /\ move.Source \in files /\ move.Destination.folder \in e.dirs
    IN  /\ dirs' = e.dirs
        /\ createdFolders' = e.created
        /\ attempted' = Append(attempted, Attempt(move.Type, IF ok THEN "ok" ELSE "error"))
        /\ IF ok
           THEN /\ files' = (files \ {move.Source}) \cup {move.Destination}
                /\ successCount' = successCount + 1
                /\ errorCount' = errorCount
           ELSE /\ files' = files
                /\ successCount' = successCount
                /\ errorCount' = errorCount + 1

\* phase 1: Execute_ShortcutMoves on the regular moves
ExecMove ==
    /\ pc = "exec" /\ phase = 1
    /\ UNCHANGED <<calVars, parVars, seen>>
    /\ \E fault \in FaultChoices : DoMove(PhaseList(1)[idx], fault)
    /\ Advance
    /\ UNCHANGED <<config, configFile, displayVars, processVars, currentMode, pc, planVars, faults, runs, historyVars>>

\* phase 2: one iteration of the foreach of Execute_ShortcutRecreations
ExecRecreate ==
    /\ pc = "exec" /\ phase = 2
    /\ UNCHANGED <<calVars, parVars, seen>>
    /\ \E fault \in FaultChoices :
          LET missing == PhaseList(2)[idx]
              e == Ensure_Folder(missing.Folder, dirs, createdFolders)
              ok == ~fault /\ missing.Folder \in e.dirs
          IN  /\ dirs' = e.dirs
              /\ createdFolders' = e.created
              /\ attempted' = Append(attempted, Attempt("Recreate", IF ok THEN "ok" ELSE "error"))
              /\ IF ok
                 THEN /\ files' = files \cup {[folder |-> missing.Folder, name |-> missing.Name]}
                      /\ successCount' = successCount + 1
                      /\ errorCount' = errorCount
                 ELSE /\ files' = files
                      /\ successCount' = successCount
                      /\ errorCount' = errorCount + 1
    /\ Advance
    /\ UNCHANGED <<config, configFile, displayVars, processVars, currentMode, pc, planVars, faults, runs, historyVars>>

\* phase 3: Execute_ShortcutMoves on the quarantines
ExecQuarantine ==
    /\ pc = "exec" /\ phase = 3
    /\ UNCHANGED <<calVars, parVars, seen>>
    /\ \E fault \in FaultChoices : DoMove(PhaseList(3)[idx], fault)
    /\ Advance
    /\ UNCHANGED <<config, configFile, displayVars, processVars, currentMode, pc, planVars, faults, runs, historyVars>>

\* phase 4: one iteration of the foreach of Execute_ShortcutDeletes
ExecDelete ==
    /\ pc = "exec" /\ phase = 4
    /\ UNCHANGED <<calVars, parVars, seen>>
    /\ \E fault \in FaultChoices :
          LET delete == PhaseList(4)[idx]
              ok == ~fault /\ delete.Path \in files
          IN  IF ok
              THEN /\ attempted' = Append(attempted, Attempt("Delete", "ok"))
                   /\ files' = files \ {delete.Path}
                   /\ successCount' = successCount + 1
                   /\ errorCount' = errorCount
              ELSE /\ attempted' = Append(attempted, Attempt("Delete", "error"))
                   /\ files' = files
                   /\ successCount' = successCount
                   /\ errorCount' = errorCount + 1
    /\ Advance
    /\ UNCHANGED <<config, configFile, displayVars, dirs, processVars, currentMode, createdFolders, pc, planVars,
                   faults, runs, historyVars>>

\* phase 5: one iteration of the foreach of Execute_FolderDeletes
ExecFolderDelete ==
    /\ pc = "exec" /\ phase = 5
    /\ UNCHANGED <<calVars, parVars, seen>>
    /\ \E fault \in FaultChoices :
          LET folder == PhaseList(5)[idx]
              items == ChildPaths(folder.Path, files, dirs)
          IN  IF items = {}
              THEN IF ~fault /\ folder.Path \in dirs
                   THEN /\ attempted' = Append(attempted, Attempt("FolderDelete", "ok"))
                        /\ dirs' = dirs \ {folder.Path}
                        /\ successCount' = successCount + 1
                        /\ errorCount' = errorCount
                        /\ skipCount' = skipCount
                   ELSE /\ attempted' = Append(attempted, Attempt("FolderDelete", "error"))
                        /\ dirs' = dirs
                        /\ successCount' = successCount
                        /\ errorCount' = errorCount + 1
                        /\ skipCount' = skipCount
              ELSE \* "Skipped deletion (folder not empty)": neither counter moves
                   /\ attempted' = Append(attempted, Attempt("FolderDelete", "skipped"))
                   /\ dirs' = dirs
                   /\ successCount' = successCount
                   /\ errorCount' = errorCount
                   /\ skipCount' = skipCount + 1
    /\ Advance
    /\ UNCHANGED <<config, configFile, displayVars, files, processVars, currentMode, createdFolders, pc, planVars,
                   faults, runs, startedAuto, files0, dirs0, lastRun>>

\* lines 1441-1444: the summary
Finish ==
    /\ pc = "exec" /\ phase = 6
    /\ UNCHANGED <<calVars, parVars, seen>>
    /\ pc' = "after"
    /\ lastRun' = IF errorCount = 0 /\ skipCount = 0 THEN "clean" ELSE "errors"
    /\ UNCHANGED <<config, configFile, displayVars, attempted, diskVars, processVars, currentMode, createdFolders, planVars,
                   execVars, faults, runs, startedAuto, files0, dirs0, skipCount>>

\* lines 1493-1498: leave in automated mode, else back to the menu
AfterMode ==
    /\ pc = "after"
    /\ UNCHANGED <<calVars, parVars, seen>>
    /\ IF ~interactiveMode
       THEN pc' = "exited" /\ currentMode' = currentMode
       ELSE pc' = "loop" /\ currentMode' = NoMode
    /\ UNCHANGED <<config, configFile, displayVars, attempted, diskVars, processVars, createdFolders, planVars, execVars,
                   faults, runs, historyVars>>

\* ------------------------------------------------- SAVE and READ modes
\* Scan_StartMenuShortcuts: $tree[$folder][$name] = details for every .lnk
\* file, plus the system folder Programs\Startup when it exists
Scan_StartMenuShortcuts(fs, d) ==
    LET systemFolders == IF ProgramsStartup \in d THEN {ProgramsStartup} ELSE {}
    IN  [f \in {x.folder : x \in fs} \cup systemFolders |->
            [n \in {x.name : x \in {y \in fs : y.folder = f}} |-> Details(n)]]

\* ConvertTo-Json: the text, as the list of folder members, each with the
\* list of its shortcut members
ConvertTo_Json(tree) ==
    LET fs == SelectSeq(FolderOrder, LAMBDA f : f \in DOMAIN tree)
    IN  [i \in 1..Len(fs) |->
            LET ns == SelectSeq(NameOrder, LAMBDA n : n \in DOMAIN tree[fs[i]])
            IN  [Key |-> fs[i],
                 Value |-> [k \in 1..Len(ns) |-> [Key |-> ns[k], Value |-> tree[fs[i]][ns[k]]]]]]

\* the last member of a key wins
MemberValue(members, key) ==
    LET last == CHOOSE i \in 1..Len(members) :
                   /\ members[i].Key = key
                   /\ \A j \in (i + 1)..Len(members) : members[j].Key # key
    IN  members[last].Value

\* ConvertFrom-Json: the object whose properties are the members of the text
ConvertFrom_Json(text) ==
    [f \in {text[i].Key : i \in 1..Len(text)} |->
        LET members == MemberValue(text, f)
        IN  [n \in {members[k].Key : k \in 1..Len(members)} |-> MemberValue(members, n)]]

\* "Chrome v120.lnk".Length
TokenLength(t) ==
    CASE t = "Chrome" -> 6
      [] t = "VSCode" -> 6
      [] t = " v120" -> 5
      [] t = " (64-bit)" -> 9
      [] OTHER -> 4

RECURSIVE Length(_)
Length(name) == IF name = <<>> THEN 0 ELSE TokenLength(Head(name)) + Length(Tail(name))

Max(a, b) == IF a >= b THEN a ELSE b

\* Calculate_ColumnLayout with -IndentSpaces 6, MinColumnWidth 25, ColumnPadding 4
Calculate_ColumnLayout(AllItems, width) ==
    LET availableWidth == width - 6
        lengths == {Length(AllItems[i]) : i \in 1..Len(AllItems)} \cup {0}
        maxItemLength == CHOOSE m \in lengths : \A l \in lengths : l <= m
        columnWidth == Max(maxItemLength + 4, 25)
    IN  [ColumnWidth |-> columnWidth,
         NumColumns |-> Max(1, availableWidth \div columnWidth)]

\* a layout that rounds the number of rows down
Format_InColumnsFloor(Items, NumColumns) ==
    LET numRows == Len(Items) \div NumColumns
    IN  [r \in 1..numRows |->
            LET shownCols == {c \in 0..(NumColumns - 1) : (r - 1) + c * numRows < Len(Items)}
            IN  [c \in 1..Cardinality(shownCols) |-> Items[(r - 1) + (c - 1) * numRows + 1]]]

\* Format_InColumns: the rows written, column-major; $index = $row + $col * $numRows
Format_InColumns(Items, NumColumns) ==
    LET numRows == (Len(Items) + NumColumns - 1) \div NumColumns
    IN  [r \in 1..numRows |->
            LET shownCols == {c \in 0..(NumColumns - 1) : (r - 1) + c * numRows < Len(Items)}
            IN  [c \in 1..Cardinality(shownCols) |-> Items[(r - 1) + (c - 1) * numRows + 1]]]

\* Display_Config: one block per folder key, sorted, with its sorted names in rows
Display_Config(Config, width) ==
    LET folderKeys == SelectSeq(FolderOrder, LAMBDA f : f \in DOMAIN Config)
        namesOf(f) == SelectSeq(NameOrder, LAMBDA n : n \in DOMAIN Config[f])
        RECURSIVE allNames(_)
        allNames(i) == IF i > Len(folderKeys) THEN <<>>
                       ELSE namesOf(folderKeys[i]) \o allNames(i + 1)
        layout == Calculate_ColumnLayout(allNames(1), width)
    IN  [i \in 1..Len(folderKeys) |->
            [Name |-> folderKeys[i],
             Count |-> Len(namesOf(folderKeys[i])),
             Rows |-> IF Len(namesOf(folderKeys[i])) > 0
                      THEN Format_InColumns(namesOf(folderKeys[i]), layout.NumColumns)
                      ELSE <<>>]]

\* Calculate_ConfigDiff: a folder or a shortcut of a common folder added or removed
Calculate_ConfigDiff(OldConfig, NewConfig) ==
    \/ DOMAIN OldConfig # DOMAIN NewConfig
    \/ \E f \in DOMAIN OldConfig \cap DOMAIN NewConfig :
          DOMAIN OldConfig[f] # DOMAIN NewConfig[f]

\* Save_ConfigFile, then Display_Config of the file read back
SaveAndDisplay(tree) ==
    /\ config' = ConvertFrom_Json(ConvertTo_Json(tree))
    /\ configFile' = "ok"
    /\ shown' = Display_Config(config', consoleWidth)
    /\ lastRun' = "saved"

\* Invoke_SaveMode up to the prompt, or to its end when nothing is asked
StartSave ==
    /\ pc = "loop"
    /\ UNCHANGED <<calVars, parVars, seen>>
    /\ currentMode = "SAVE"
    /\ LET tree == Scan_StartMenuShortcuts(files, dirs)
           newConfig == ConvertFrom_Json(ConvertTo_Json(tree))
           changesFound == configFile = "ok" /\ Calculate_ConfigDiff(config, newConfig)
       IN  IF changesFound /\ dryRun
           THEN /\ pc' = "saveprompt"
                /\ sortedTree' = tree
                /\ UNCHANGED <<config, configFile, shown, lastRun>>
           ELSE /\ SaveAndDisplay(tree)
                /\ sortedTree' = MkConfig({})
                /\ pc' = "after"
    /\ files0' = files
    /\ dirs0' = dirs
    /\ UNCHANGED <<diskVars, processVars, currentMode, createdFolders, planVars, execVars,
                   faults, runs, startedAuto, skipCount, attempted, consoleWidth>>

\* the answer to "Do you want to save these changes? (Y/N)"
SaveAnswer ==
    /\ pc = "saveprompt"
    /\ UNCHANGED <<calVars, parVars, seen>>
    /\ \E response \in {"Y", "y", "N", ""} :
          IF response = "Y" \/ response = "y"
          THEN SaveAndDisplay(sortedTree)
          ELSE /\ lastRun' = "savecancelled"
               /\ UNCHANGED <<config, configFile, shown>>
    /\ sortedTree' = MkConfig({})
    /\ pc' = "after"
    /\ UNCHANGED <<diskVars, processVars, currentMode, createdFolders, planVars, execVars,
                   faults, runs, startedAuto, files0, dirs0, skipCount, attempted,
                   consoleWidth>>

\* Invoke_ReadMode
ReadConfig ==
    /\ pc = "loop"
    /\ UNCHANGED <<calVars, parVars, seen>>
    /\ currentMode = "READ"
    /\ IF configFile = "missing"
       THEN /\ pc' = "exited"
            /\ lastRun' = "fatal"
            /\ shown' = shown
       ELSE /\ pc' = "after"
            /\ lastRun' = "read"
            /\ shown' = Display_Config(config, consoleWidth)
    /\ UNCHANGED <<config, configFile, diskVars, processVars, currentMode, createdFolders,
                   planVars, execVars, faults, runs, startedAuto, files0, dirs0, skipCount,
                   attempted, consoleWidth, sortedTree>>

\* ------------------------------------------------- calendar_to_task.js
\* syncCalendarAndTasks (lines 11-172) and its helpers (lines 178-271), for a
\* calendar and a task list that exist. Lines 980-1155 of the file hold a
\* second, older syncCalendarAndTasks without the report; the model follows
\* the first one, which the page of doGet calls with its two dates (line 927).
UNWATCHED_COLOR_ID == "7"
DEFAULT_COLOR_ID == "11"

\* normalizeColor: "" is the default colour
normalizeColor(color) == IF color = "" THEN DEFAULT_COLOR_ID ELSE color

\* buildTaskTitle: `${ev.getTitle()} (${eventDate})`
buildTaskTitle(ev) == <<ev.title, " (", ev.date, ")">>

EventTitles == {"Dune", "Andor"}
EventDates == {"03/01/2025"}
EventColors == {UNWATCHED_COLOR_ID, DEFAULT_COLOR_ID, ""}
Events == [title : EventTitles, date : EventDates, color : EventColors, recurring : BOOLEAN]

\* the titles a task can carry: those the script itself writes
TaskTitles == {buildTaskTitle(ev) : ev \in Events}
TaskStatuses == {"needsAction", "completed"}

SeqsUpTo(S, n) == UNION {[1..k -> S] : k \in 0..n}

\* the task lists of at most n tasks, ids in order of insertion
TaskLists(n) ==
    {[i \in 1..Len(q) |-> [id |-> i, title |-> q[i].title, status |-> q[i].status]] :
        q \in SeqsUpTo([title : TaskTitles, status : TaskStatuses], n)}

\* new Map(events.map(ev => [buildTaskTitle(ev), ev])).get(key): the last
\* event of that key, as its position in events; 0 for undefined
eventByKey(key) ==
    LET at == {i \in 1..Len(calEvents) : buildTaskTitle(calEvents[i]) = key}
    IN  IF at = {} THEN 0 ELSE CHOOSE i \in at : \A j \in at : j <= i

\* a Phase 1 that looks at the colour only
Phase1CreatesAlways(ev, keys) ==
    normalizeColor(ev.color) = UNWATCHED_COLOR_ID

\* lines 68-70: Phase 1 calls insertTask for ev
Phase1Creates(ev, keys) ==
    /\ normalizeColor(ev.color) = UNWATCHED_COLOR_ID
    /\ ~ev.recurring
    /\ buildTaskTitle(ev) \notin keys

\* Tasks.Tasks.insert of insertTask
Tasks_insert(list, id, title) ==
    Append(list, [id |-> id, title |-> title, status |-> "needsAction"])

\* Tasks.Tasks.update({id, status: 'completed'})
Tasks_update(list, id) ==
    [i \in 1..Len(list) |-> IF list[i].id = id THEN [list[i] EXCEPT !.status = "completed"]
                            ELSE list[i]]

\* a clear that empties the list
Tasks_clearAll(list) == SelectSeq(list, LAMBDA t : FALSE)

\* Tasks.Tasks.clear: "clears all tasks with status='completed' in the list"
Tasks_clear(list) == SelectSeq(list, LAMBDA t : t.status # "completed")

\* what a call of the Calendar or Tasks service can do
ApiOutcomes == IF faults THEN {"ok", "error"} ELSE {"ok"}

\* lines 50-63: the tasks are fetched, the maps and counters set up
FetchAndSetUp ==
    /\ tasks' = taskList
    /\ taskKeys' = {taskList[i].title : i \in 1..Len(taskList)}
    /\ markedCompleted' = 0
    /\ calEvents0' = calEvents
    /\ insertLog' = <<>>
    /\ ei' = 1
    /\ ti' = 1
    /\ cpc' = "phase1"
    /\ syncRuns' = syncRuns + 1
    /\ UNCHANGED <<startMenuVars, parVars, faults, calEvents, taskList, nextId>>

\* run() of the page calls syncCalendarAndTasks (lines 912-928)
StartSync ==
    /\ cpc = "idle"
    /\ FetchAndSetUp

\* the same dates are submitted again once the run has returned
SyncAgain ==
    /\ cpc = "done"
    /\ syncRuns < MaxSyncRuns
    /\ FetchAndSetUp

\* lines 67-84: one turn of Phase 1's loop
Phase1Step ==
    /\ cpc = "phase1"
    /\ ei <= Len(calEvents)
    /\ LET ev == calEvents[ei]
           key == buildTaskTitle(ev)
       IN  IF Phase1Creates(ev, taskKeys)
           THEN \E outcome \in ApiOutcomes :
                   /\ insertLog' = Append(insertLog,
                                          [title |-> key, event |-> ei, outcome |-> outcome])
                   /\ IF outcome = "ok"
                      THEN /\ taskList' = Tasks_insert(taskList, nextId, key)
                           /\ nextId' = nextId + 1
                           /\ taskKeys' = taskKeys \cup {key}
                      ELSE UNCHANGED <<taskList, nextId, taskKeys>>
           ELSE UNCHANGED <<taskList, nextId, taskKeys, insertLog>>
    /\ ei' = ei + 1
    /\ UNCHANGED <<startMenuVars, parVars, faults, syncRuns, calEvents, cpc, tasks, ti, markedCompleted,
                   calEvents0>>

\* lines 86-90: Phase 1 is over
EndPhase1 ==
    /\ cpc = "phase1"
    /\ ei > Len(calEvents)
    /\ cpc' = "phase2"
    /\ UNCHANGED <<startMenuVars, parVars, faults, syncRuns, calEvents, taskList, nextId, tasks, taskKeys, ei, ti,
                   markedCompleted, calEvents0, insertLog>>

\* lines 91-148: one turn of Phase 2's loop
Phase2Step ==
    /\ cpc = "phase2"
    /\ ti <= Len(tasks)
    /\ LET task == tasks[ti]
           ev == eventByKey(task.title)
       IN  IF task.status = "completed"
           THEN /\ IF ev # 0 /\ normalizeColor(calEvents[ev].color) = UNWATCHED_COLOR_ID
                   THEN \E outcome \in ApiOutcomes :
                           IF outcome = "ok"
                           THEN calEvents' = [calEvents EXCEPT ![ev].color = DEFAULT_COLOR_ID]
                           ELSE calEvents' = calEvents
                   ELSE calEvents' = calEvents
                /\ UNCHANGED <<taskList, markedCompleted>>
           ELSE IF ev = 0 \/ normalizeColor(calEvents[ev].color) = UNWATCHED_COLOR_ID
                THEN UNCHANGED <<calEvents, taskList, markedCompleted>>
                ELSE \E outcome \in ApiOutcomes :
                        IF outcome = "ok"
                        THEN /\ taskList' = Tasks_update(taskList, task.id)
                             /\ markedCompleted' = markedCompleted + 1
                             /\ calEvents' = calEvents
                        ELSE UNCHANGED <<calEvents, taskList, markedCompleted>>
    /\ ti' = ti + 1
    /\ UNCHANGED <<startMenuVars, parVars, faults, syncRuns, nextId, cpc, tasks, taskKeys, ei, calEvents0,
                   insertLog>>

\* lines 150-172: the bulk clear and the end of the run
BulkClear ==
    /\ cpc = "phase2"
    /\ ti > Len(tasks)
    /\ LET completedBeforeRun ==
               Cardinality({i \in 1..Len(tasks) : tasks[i].status = "completed"})
           deleted == completedBeforeRun + markedCompleted
       IN  IF deleted > 0
           THEN \E outcome \in ApiOutcomes :
                   IF outcome = "ok" THEN taskList' = Tasks_clear(taskList)
                   ELSE taskList' = taskList
           ELSE taskList' = taskList
    /\ cpc' = "done"
    /\ UNCHANGED <<startMenuVars, parVars, faults, syncRuns, calEvents, nextId, tasks, taskKeys, ei, ti,
                   markedCompleted, calEvents0, insertLog>>

\* a run of the sync over some events and some task list
InitCalendarWith(f) ==
    /\ InitWith(0, {[Auto |-> FALSE, Mode |-> NoMode]}, {FALSE}, {{}})
    /\ configFile = "missing"
    /\ consoleWidth = DefaultWidth
    /\ faults = f
    /\ calEvents \in SeqsUpTo(Events, CalMaxEvents)
    /\ taskList \in TaskLists(CalMaxTasks)
    /\ SyncNotStarted

InitCalendar == InitCalendarWith(FALSE)

\* ... when the calls of the Calendar and Tasks services can throw
InitCalendarFaults == InitCalendarWith(TRUE)

NextCalendar ==
    \/ StartSync
    \/ Phase1Step
    \/ EndPhase1
    \/ Phase2Step
    \/ BulkClear

SpecCalendar == InitCalendar /\ [][NextCalendar]_vars

SpecCalendarFaults == InitCalendarFaults /\ [][NextCalendar]_vars

\* two runs over the same dates, one after the other
NextCalendarTwice ==
    \/ NextCalendar
    \/ SyncAgain

SpecCalendarTwice == InitCalendar /\ [][NextCalendarTwice]_vars

\* ------------------------------------------------------------------- specs
Enforce ==
    \/ ConfigNotFound
    \/ StartEnforce
    \/ ScanItem
    \/ DetectMissing
    \/ DetectEmpty
    \/ NoChanges
    \/ ProceedUnattended
    \/ ExecMove
    \/ ExecRecreate
    \/ ExecQuarantine
    \/ ExecDelete
    \/ ExecFolderDelete
    \/ Finish
    \/ AfterMode

Next == Enforce

Spec == Init /\ [][Next]_vars

NextSession ==
    \/ Enforce
    \/ ShowMenu
    \/ MenuKey
    \/ Elevate
    \/ Preview
    \/ Answer
    \/ StartSave
    \/ SaveAnswer
    \/ ReadConfig

SpecSession == InitSession /\ [][NextSession]_vars

SpecFaults == InitFaults /\ [][Next]_vars

SpecQuarantine == InitQuarantine /\ [][Next]_vars

\* SAVE and READ from the command line or the menu, up to the next choice
NextSave ==
    \/ StartSave
    \/ SaveAnswer
    \/ ReadConfig
    \/ AfterMode
    \/ ShowMenu
    \/ MenuKey

SpecSave == InitSave /\ [][NextSave]_vars

\* ----------------------------------------------------- reading the plan
\* the places of Invoke_EnforceMode where Scan_AndOrganizeShortcuts has begun
ScanPcs == {"scan", "empty", "planned", "prompt", "exec", "after"}
\* ... and where the whole plan is known
PlanPcs == {"planned", "prompt", "exec", "after"}

\* the observed items the foreach has handled
Scanned == IF pc \in ScanPcs THEN files0 \ pending ELSE {}

MatchKeyOf(name) ==
    Get_ShortcutMatchKey(name, configData.AllConfigShortcuts, configData.ExpectedMap)

MovesFrom(x, type) ==
    {i \in 1..Len(scan.plannedMoves) :
        scan.plannedMoves[i].Source = x /\ scan.plannedMoves[i].Type = type}

DeletesOf(x) == {i \in 1..Len(scan.plannedDeletes) : scan.plannedDeletes[i].Path = x}

\* x is moved to the quarantine folder by exactly one planned Quarantine, or
\* sits there already and is not touched
QuarantinedOrThere(x) ==
    \/ /\ Cardinality(MovesFrom(x, "Quarantine")) = 1
       /\ \A i \in MovesFrom(x, "Quarantine") :
             scan.plannedMoves[i].Destination.folder = quarantineFolder
    \/ /\ x.folder = quarantineFolder
       /\ MovesFrom(x, "Quarantine") = {}

\* ------------------------------------------------------------------ claims

\* C2: an observed item neither whose canonical key nor whose full name is a
\* key of the expected-folder map is planned as a Quarantine (or stays in the
\* quarantine folder); it is never the source of a Move or of a duplicate
\* delete turned Move, and no Recreate carries its name or canonical key.
C2_UnknownIsQuarantined ==
    \A x \in Scanned :
        (/\ Normalize_ShortcutName(x.name) \notin DOMAIN configData.ExpectedMap
         /\ x.name \notin DOMAIN configData.ExpectedMap)
        => /\ MovesFrom(x, "Move") = {}
           /\ QuarantinedOrThere(x)
           /\ \A i \in 1..Len(missingShortcuts) :
                 missingShortcuts[i].Name \notin {x.name, Normalize_ShortcutName(x.name)}

C2_Witness ==
    /\ pc = "planned"
    /\ DOMAIN configData.ExpectedMap # {}
    /\ Len(missingShortcuts) > 0
    /\ \E x \in files0 :
          /\ Normalize_ShortcutName(x.name) \notin DOMAIN configData.ExpectedMap
          /\ x.name \notin DOMAIN configData.ExpectedMap
          /\ x.folder # quarantineFolder
          /\ MovesFrom(x, "Quarantine") # {}

\* C3: every observed item for which Get_ShortcutMatchKey resolves no key is
\* planned as a Quarantine or is in the quarantine folder already, and is never
\* among the planned duplicate deletes.
C3_NoKeyIsQuarantinedNeverDeleted ==
    \A x \in Scanned :
        MatchKeyOf(x.name) = NoKey
        => /\ DeletesOf(x) = {}
           /\ QuarantinedOrThere(x)

\* C4: a shortcut listed in the config under the folder it sits in is never the
\* source of a planned Move, Quarantine or duplicate delete.
C4_ListedInPlaceIsLeftAlone ==
    \A x \in Scanned :
        (x.folder \in DOMAIN config /\ x.name \in DOMAIN config[x.folder])
        => /\ MovesFrom(x, "Move") = {}
           /\ MovesFrom(x, "Quarantine") = {}
           /\ DeletesOf(x) = {}

\* the observed items whose canonical key is k
KeyGroup(k) == {y \in files0 : Normalize_ShortcutName(y.name) = k}

\* the canonical keys under which the config lists exactly one entry
UniqueKeys ==
    {k \in DOMAIN configData.AllConfigShortcuts :
        Len(configData.AllConfigShortcuts[k]) = 1}

\* x is moved to the folder the config expects for k, by one planned Move
MovedToExpected(x, k) ==
    /\ Cardinality(MovesFrom(x, "Move")) = 1
    /\ \A i \in MovesFrom(x, "Move") :
          scan.plannedMoves[i].Destination = [folder |-> configData.ExpectedMap[k], name |-> x.name]
    /\ MovesFrom(x, "Quarantine") = {}
    /\ DeletesOf(x) = {}

\* x is in the expected folder and no action names it
InPlace(x, k) ==
    /\ x.folder = configData.ExpectedMap[k]
    /\ MovesFrom(x, "Move") = {}
    /\ MovesFrom(x, "Quarantine") = {}
    /\ DeletesOf(x) = {}

DeletedAsDuplicate(x) ==
    /\ Cardinality(DeletesOf(x)) = 1
    /\ MovesFrom(x, "Move") = {}
    /\ MovesFrom(x, "Quarantine") = {}

\* the scenario of the specification: Chrome.lnk listed under Programs and
\* VSCode.lnk under Programs\Dev, observed Chrome v120.lnk in Root and
\* VSCode.lnk in Programs\Dev
ScenarioConfig ==
    MkConfig({[folder |-> Programs, name |-> Chrome], [folder |-> ProgramsDev, name |-> VSCode]})
ScenarioTree ==
    {[folder |-> Root, name |-> ChromeV120], [folder |-> ProgramsDev, name |-> VSCode]}
IsScenario ==
    /\ config = ScenarioConfig
    /\ files0 = ScenarioTree
    /\ dirs0 = DirClosure({x.folder : x \in ScenarioTree})

OneMoveOnly ==
    /\ Len(scan.plannedMoves) = 1
    /\ scan.plannedMoves[1].Type = "Move"
    /\ scan.plannedMoves[1].Source = [folder |-> Root, name |-> ChromeV120]
    /\ scan.plannedMoves[1].Destination = [folder |-> Programs, name |-> ChromeV120]
    /\ scan.plannedDeletes = <<>>
    /\ missingShortcuts = <<>>
    /\ emptyFoldersToDelete = <<>>

\* C5 as the specification states it: an observed item whose canonical key has
\* exactly one config entry is planned as a Move to the expected folder or, in
\* place, as nothing, whatever version decoration its name carries; and the
\* scenario's plan is exactly one Move.
C5_UniqueKeyMoveOrNoOp ==
    pc \in PlanPcs
    => /\ \A k \in UniqueKeys : \A x \in KeyGroup(k) :
              MovedToExpected(x, k) \/ InPlace(x, k)
       /\ IsScenario => OneMoveOnly

\* C5 as the code has it: an observed item whose canonical key has exactly one
\* config entry is planned as a Move to the expected folder, or in place as
\* nothing, or, when other observed items share its canonical key, as a
\* duplicate delete; of the items sharing the key exactly one is kept; none is
\* quarantined; and the scenario's plan is exactly one Move.
C5_UniqueKeyMoveNoOpOrDuplicate ==
    pc \in PlanPcs
    => /\ \A k \in UniqueKeys :
             /\ \A x \in KeyGroup(k) :
                   \/ MovedToExpected(x, k)
                   \/ InPlace(x, k)
                   \/ DeletedAsDuplicate(x) /\ Cardinality(KeyGroup(k)) >= 2
             /\ KeyGroup(k) # {}
                => Cardinality({x \in KeyGroup(k) : DeletesOf(x) = {}}) = 1
       /\ IsScenario => OneMoveOnly

C5_Witness ==
    /\ pc = "planned"
    /\ IsScenario
    /\ OneMoveOnly

\* C6: when two or more config entries share a canonical key, an observed name
\* resolves to a key only by being exactly the full name of one of those
\* entries, and that key maps to the folder of an entry of that name; a name
\* that is none of them resolves to no key.
C6_VariantsMatchByFullName ==
    pc \in ScanPcs
    => \A n \in {x.name : x \in files0} \cup {NameOrder[i] : i \in 1..Len(NameOrder)} :
          LET norm == Normalize_ShortcutName(n)
              All == configData.AllConfigShortcuts
          IN  (norm \in DOMAIN All /\ Len(All[norm]) >= 2)
              => LET variants == All[norm]
                     named == {i \in 1..Len(variants) : variants[i].Original = n}
                 IN  /\ named # {} => /\ MatchKeyOf(n) = n
                                      /\ \E i \in named :
                                            configData.ExpectedMap[n] = variants[i].Folder
                     /\ named = {} => MatchKeyOf(n) = NoKey

C6_Witness ==
    /\ pc = "planned"
    /\ \E x, y \in files0 :
          /\ Normalize_ShortcutName(x.name) = Normalize_ShortcutName(y.name)
          /\ Normalize_ShortcutName(x.name) \in DOMAIN configData.AllConfigShortcuts
          /\ Len(configData.AllConfigShortcuts[Normalize_ShortcutName(x.name)]) >= 2
          /\ MatchKeyOf(x.name) = x.name
          /\ x.name # Normalize_ShortcutName(x.name)
          /\ MatchKeyOf(y.name) = NoKey

\* three observed items of one name n, in three folders, that match no config
\* entry, and no other observed item of their canonical key
Triple(n) ==
    /\ MatchKeyOf(n) = NoKey
    /\ Cardinality(KeyGroup(Normalize_ShortcutName(n))) = 3
    /\ \A x \in KeyGroup(Normalize_ShortcutName(n)) : x.name = n

\* the name x carries once the plan is executed
PlannedName(x) ==
    IF \E i \in 1..Len(scan.plannedMoves) : scan.plannedMoves[i].Source = x
    THEN LET i == CHOOSE j \in 1..Len(scan.plannedMoves) : scan.plannedMoves[j].Source = x
         IN  scan.plannedMoves[i].Destination.name
    ELSE x.name

TripleNames(n) == {n, NumberedName(n, 1), NumberedName(n, 2)}

\* C7: three observed items of one name in three folders that match no config
\* entry are each kept: whatever the order of the scan, the plan sends them to
\* the quarantine folder (or leaves the one that is there) under the names
\* n, n (1), n (2), and after an execution without errors the quarantine
\* folder holds these three names.
C7_TripleIsNumbered ==
    \A n \in {x.name : x \in files0} :
        (pc \in PlanPcs /\ Triple(n))
        => LET g == KeyGroup(Normalize_ShortcutName(n))
           IN  /\ \A x \in g : DeletesOf(x) = {} /\ QuarantinedOrThere(x)
               /\ {PlannedName(x) : x \in g} = TripleNames(n)
               /\ (pc = "after" /\ lastRun = "clean")
                  => /\ \A m \in TripleNames(n) :
                           [folder |-> quarantineFolder, name |-> m] \in files
                     /\ \A x \in g : x.folder # quarantineFolder => x \notin files

C7_Witness ==
    /\ pc = "after" /\ lastRun = "clean"
    /\ \E n \in {x.name : x \in files0} :
          /\ Triple(n)
          /\ \E x \in KeyGroup(Normalize_ShortcutName(n)) : x.folder = quarantineFolder
          /\ DOMAIN configData.ExpectedMap # {}

\* C8: a folder that is a key of the config is never among the folders slated
\* for deletion and is not deleted by the executor: from the start of the scan
\* to the end of the run every config folder exists.
C8_ConfigFolderIsKept ==
    pc \in ScanPcs
    => /\ \A i \in 1..Len(emptyFoldersToDelete) :
             emptyFoldersToDelete[i].Path \notin DOMAIN config
       /\ \A f \in DOMAIN config : f \in dirs

C8_Witness ==
    /\ pc = "after" /\ lastRun = "clean"
    /\ Len(emptyFoldersToDelete) > 0
    /\ \E f \in DOMAIN config \ {Root} :
          /\ \E x \in files0 : x.folder = f
          /\ \A x \in files : x.folder # f
          /\ \A d \in dirs : d # f => f \notin Ancestors(d)

\* C9: in interactive dry-run mode nothing on disk is created, moved or deleted
\* before the operator has answered the prompt, and an answer other than Y/y
\* leaves the tree as it was.
C9_NothingBeforeTheAnswer ==
    /\ (interactiveMode /\ dryRun /\ pc \in {"scan", "empty", "planned", "prompt"})
       => files = files0 /\ dirs = dirs0
    /\ (interactiveMode /\ dryRun /\ pc = "after" /\ lastRun = "cancelled")
       => files = files0 /\ dirs = dirs0

\* C10: a process started with -Auto never shows the menu and never waits at
\* the confirmation prompt, the elevated re-launch included.
C10_AutoNeverWaits ==
    startedAuto => pc \notin {"menu", "prompt"}

\* C1: after a run of Enforce that executed without errors, the plan of the
\* next run over the same config is empty.
C1_SecondPlanIsEmpty ==
    (runs >= 2 /\ pc = "planned" /\ lastRun = "clean") => ~hasChanges

\* C11: when the config file is missing or is not JSON, Enforce ends without
\* creating a folder and without moving, quarantining, recreating or deleting
\* anything: the tree stays as it was when the script started.
C11_FatalBeforeAnyMutation ==
    configFile # "ok" => files = files0 /\ dirs = dirs0

\* ------------------------------------------------- reading the execution
Kinds == <<"Move", "Recreate", "Quarantine", "Delete", "FolderDelete">>

KindPhase(kind) == CHOOSE k \in 1..Len(Kinds) : Kinds[k] = kind

\* how many actions of a kind the confirmed plan holds
PlannedOf(kind) ==
    CASE kind = "Move" -> Cardinality({i \in 1..Len(scan.plannedMoves) : scan.plannedMoves[i].Type = "Move"})
      [] kind = "Recreate" -> Len(missingShortcuts)
      [] kind = "Quarantine" -> Cardinality({i \in 1..Len(scan.plannedMoves) : scan.plannedMoves[i].Type = "Quarantine"})
      [] kind = "Delete" -> Len(scan.plannedDeletes)
      [] kind = "FolderDelete" -> Len(emptyFoldersToDelete)

\* how many actions of a kind are among the first n attempts
AttemptedOf(kind, n) == Cardinality({j \in 1..n : attempted[j].kind = kind})

OutcomesOf(outcome) == Cardinality({j \in 1..Len(attempted) : attempted[j].outcome = outcome})

\* C12: the executor attempts Moves, then Recreations, then Quarantines, then
\* duplicate deletes, then empty-folder deletes: when an action is attempted,
\* every planned action of every earlier phase has been attempted before it.
C12_PhaseOrder ==
    pc \in {"exec", "after"}
    => \A i \in 1..Len(attempted) :
          \A k \in 1..Len(Kinds) :
              k < KindPhase(attempted[i].kind)
              => AttemptedOf(Kinds[k], i - 1) = PlannedOf(Kinds[k])

C12_Witness ==
    /\ pc = "after"
    /\ \A k \in 1..Len(Kinds) : AttemptedOf(Kinds[k], Len(attempted)) >= 1
    /\ \E k \in 1..Len(Kinds) : AttemptedOf(Kinds[k], Len(attempted)) >= 2

\* C13: every planned action is attempted whatever failed before it, and each
\* failure is counted as exactly one error: the counters are the numbers of
\* attempts that succeeded and that failed, and a finished run has attempted
\* every action of the plan.
C13_BestEffort ==
    pc \in {"exec", "after"}
    => /\ errorCount = OutcomesOf("error")
       /\ successCount = OutcomesOf("ok")
       /\ (pc = "after" /\ lastRun \in {"clean", "errors"})
          => \A k \in 1..Len(Kinds) : AttemptedOf(Kinds[k], Len(attempted)) = PlannedOf(Kinds[k])

C13_Witness ==
    /\ pc = "after" /\ lastRun = "errors"
    /\ Len(attempted) >= 3
    /\ attempted[1].outcome = "error"
    /\ \E i, j \in 2..Len(attempted) :
          /\ attempted[i].kind = attempted[1].kind /\ attempted[i].outcome = "ok"
          /\ attempted[j].kind # attempted[1].kind /\ attempted[j].outcome = "ok"
    /\ errorCount = 1

\* the names written in one block, cell by cell, as a sequence
RECURSIVE Cells(_)
Cells(rows) == IF rows = <<>> THEN <<>> ELSE Head(rows) \o Cells(Tail(rows))

\* the (folder, shortcut name) pairs Display_Config has written
ShownPairs ==
    UNION {{<<shown[i].Name, Cells(shown[i].Rows)[k]>> :
               k \in 1..Len(Cells(shown[i].Rows))} : i \in 1..Len(shown)}

RECURSIVE CellCount(_)
CellCount(i) == IF i = 0 THEN 0 ELSE Len(Cells(shown[i].Rows)) + CellCount(i - 1)

\* C14: after a Save that wrote the config file, the blocks Display_Config
\* shows hold exactly the (folder, shortcut name) pairs the scan found: every
\* scanned pair is shown, nothing else is shown, no pair and no folder is shown
\* twice, and each block's count is the number of names under it.
C14_SaveThenDisplayRoundTrip ==
    (pc = "after" /\ lastRun = "saved")
    => /\ ShownPairs = {<<x.folder, x.name>> : x \in files0}
       /\ CellCount(Len(shown)) = Cardinality(files0)
       /\ \A i, j \in 1..Len(shown) : shown[i].Name = shown[j].Name => i = j
       /\ \A i \in 1..Len(shown) :
             /\ shown[i].Count = Cardinality({x \in files0 : x.folder = shown[i].Name})
             /\ shown[i].Count = 0 => shown[i].Name = ProgramsStartup

\* a written Save whose display puts three shortcuts of one folder in two
\* columns, next to the empty block of Programs\Startup
C14_Witness ==
    /\ pc = "after"
    /\ lastRun = "saved"
    /\ \E i \in 1..Len(shown) :
          /\ shown[i].Count = 3
          /\ Len(shown[i].Rows) = 2
          /\ Len(shown[i].Rows[1]) = 2
    /\ \E i \in 1..Len(shown) : shown[i].Count = 0
\* ------------------------------------------------------- calendar claims
\* Phase 1 has just ended
AfterPhase1 == cpc = "phase2" /\ ti = 1

TitlesOf(list) == {list[i].title : i \in 1..Len(list)}

\* the successful inserts of this run
Created == SelectSeq(insertLog, LAMBDA c : c.outcome = "ok")

\* event i of the run had the unwatched colour and was not recurring
UnwatchedOneOff(i) ==
    /\ normalizeColor(calEvents0[i].color) = UNWATCHED_COLOR_ID
    /\ ~calEvents0[i].recurring

\* a task is created only when no task of that title was in the list or was
\* created earlier in the run, for an unwatched event that is not recurring,
\* and is then in the list as an open task
CreatedOnlyWhenNeeded ==
    /\ \A k \in 1..Len(Created) :
          /\ Created[k].title \notin TitlesOf(tasks)
          /\ \A j \in 1..(k - 1) : Created[j].title # Created[k].title
          /\ UnwatchedOneOff(Created[k].event)
          /\ Created[k].title = buildTaskTitle(calEvents0[Created[k].event])
    /\ AfterPhase1 =>
          /\ Len(taskList) = Len(tasks) + Len(Created)
          /\ \A i \in 1..Len(tasks) : taskList[i] = tasks[i]
          /\ \A k \in 1..Len(Created) :
                /\ taskList[Len(tasks) + k].title = Created[k].title
                /\ taskList[Len(tasks) + k].status = "needsAction"

MatchingEvents(title) ==
    {i \in 1..Len(calEvents0) : buildTaskTitle(calEvents0[i]) = title}

\* the run is over
SyncDone == cpc = "done"

\* the task of id is still in the list
InList(id) == \E i \in 1..Len(taskList) : taskList[i].id = id

\* C16: a task that was completed when the run began and has a matching event
\* in the unwatched colour is gone from the list after the run, and every such
\* event is no longer unwatched: its colour is the default colour.
C16_CompletedTaskResetsItsEvent ==
    SyncDone =>
        \A t \in 1..Len(tasks) :
            tasks[t].status = "completed" =>
                \A i \in MatchingEvents(tasks[t].title) :
                    normalizeColor(calEvents0[i].color) = UNWATCHED_COLOR_ID
                    => /\ ~InList(tasks[t].id)
                       /\ calEvents[i].color = DEFAULT_COLOR_ID
\* task t of the fetched list is open and no event in range carries its title
OrphanIncomplete(t) ==
    /\ tasks[t].status = "needsAction"
    /\ MatchingEvents(tasks[t].title) = {}

\* C17: an incomplete task without a matching event in the fetched range is in
\* the list, with its title and still incomplete, at every point of the run
\* and after it, also when calls of the services fail.
C17_OrphanIncompleteIsKept ==
    cpc # "idle" =>
        \A t \in 1..Len(tasks) :
            OrphanIncomplete(t) => \E i \in 1..Len(taskList) : taskList[i] = tasks[t]

\* a finished run that cleared a completed task and kept the orphan next to it
C17_Witness ==
    /\ SyncDone
    /\ Len(tasks) = 2
    /\ Len(calEvents0) > 0
    /\ \E t \in 1..Len(tasks) : OrphanIncomplete(t)
    /\ \E t \in 1..Len(tasks) : tasks[t].status = "completed" /\ ~InList(tasks[t].id)
\* the matching events of a title that had the unwatched colour when the run began
UnwatchedMatches(title) ==
    {i \in MatchingEvents(title) :
        normalizeColor(calEvents0[i].color) = UNWATCHED_COLOR_ID}

\* ... and those the run has left in the unwatched colour
StillUnwatchedMatches(title) ==
    {i \in MatchingEvents(title) :
        normalizeColor(calEvents[i].color) = UNWATCHED_COLOR_ID}

\* C18: after a run, an incomplete task whose matching events were all watched
\* is gone from the list, and so is a completed task without a matching event;
\* an incomplete task with a matching event that is unwatched (and was not
\* reset by this run) is still in the list, unchanged.
C18_CleanupRemovesWatchedKeepsUnwatched ==
    SyncDone =>
        \A t \in 1..Len(tasks) :
            /\ (/\ tasks[t].status = "needsAction"
                /\ MatchingEvents(tasks[t].title) # {}
                /\ UnwatchedMatches(tasks[t].title) = {})
               => ~InList(tasks[t].id)
            /\ (tasks[t].status = "completed" /\ MatchingEvents(tasks[t].title) = {})
               => ~InList(tasks[t].id)
            /\ (tasks[t].status = "needsAction" /\ StillUnwatchedMatches(tasks[t].title) # {})
               => \E i \in 1..Len(taskList) : taskList[i] = tasks[t]
\* --------------------------------------------------- duplicates in the plan
\* the foreach of Scan_AndOrganizeShortcuts has handled every item
ScanComplete == pc = "scan" /\ pending = {}

\* the position at which the foreach saw x
SeenAt(x) == CHOOSE i \in 1..Len(seen) : seen[i] = x

\* the first-seen item of a set of observed items
FirstSeen(S) == CHOOSE x \in S : \A y \in S : SeenAt(x) <= SeenAt(y)

\* the observed items that resolve to the lookup key k
ResolvingTo(k) == {x \in files0 : MatchKeyOf(x.name) = k}

\* the copy the known-duplicate resolution is to keep
Survivor(k) ==
    LET inPlace == {x \in ResolvingTo(k) : x.folder = configData.ExpectedMap[k]}
    IN  IF inPlace # {} THEN FirstSeen(inPlace) ELSE FirstSeen(ResolvingTo(k))

\* C19: when two or more observed items resolve to one lookup key of the
\* config, every one of them but the survivor is a planned duplicate delete
\* (once, and has no planned Move or Quarantine); the survivor is the first-seen
\* copy in the expected folder when there is one and is then not touched,
\* otherwise the first-seen copy, which has one planned Move to the expected
\* folder; no observed item is the source of a planned Move and of a planned
\* duplicate delete.
C19_KnownDuplicatesKeepOne ==
    ScanComplete =>
        /\ \A k \in DOMAIN configData.ExpectedMap :
              Cardinality(ResolvingTo(k)) >= 2 =>
                  /\ \A x \in ResolvingTo(k) \ {Survivor(k)} :
                        /\ Cardinality(DeletesOf(x)) = 1
                        /\ MovesFrom(x, "Move") = {}
                        /\ MovesFrom(x, "Quarantine") = {}
                  /\ DeletesOf(Survivor(k)) = {}
                  /\ MovesFrom(Survivor(k), "Quarantine") = {}
                  /\ IF Survivor(k).folder = configData.ExpectedMap[k]
                     THEN MovesFrom(Survivor(k), "Move") = {}
                     ELSE MovedToExpected(Survivor(k), k)
        /\ \A x \in files0 : MovesFrom(x, "Move") = {} \/ DeletesOf(x) = {}
\* x matches no config entry, and neither does any observed item of its
\* canonical key
UnknownGroup(x) ==
    \A y \in KeyGroup(Normalize_ShortcutName(x.name)) : MatchKeyOf(y.name) = NoKey

\* C20: an unknown item that is in the quarantine folder is not touched by the
\* plan, whatever unknown items share its canonical key and in whatever order
\* they are seen: it is the source of no planned Quarantine, Move or delete,
\* and every numbered Quarantine of its group has its source outside the
\* quarantine folder.
C20_QuarantinedUnknownIsUntouched ==
    pc \in PlanPcs =>
        \A x \in files0 :
            (x.folder = quarantineFolder /\ UnknownGroup(x))
            => /\ MovesFrom(x, "Quarantine") = {}
               /\ MovesFrom(x, "Move") = {}
               /\ DeletesOf(x) = {}
               /\ \A i \in 1..Len(scan.plannedMoves) :
                     (/\ scan.plannedMoves[i].Source \in KeyGroup(Normalize_ShortcutName(x.name))
                      /\ scan.plannedMoves[i].NewName # NoKey)
                     => scan.plannedMoves[i].Source.folder # quarantineFolder

\* the names the config lists under folder f whose lookup key is k
EntriesOf(k, f) ==
    IF f \in DOMAIN config
    THEN {n \in DOMAIN config[f] : KeyToUse(configData.AllConfigShortcuts, n) = k}
    ELSE {}

\* the planned Recreate actions of lookup key k
RecreatesOf(k) == {i \in 1..Len(missingShortcuts) : missingShortcuts[i].Name = k}

\* C21: every lookup key of the config that no observed item satisfied and
\* whose config entry carries a TargetPath produces exactly one Recreate, in
\* that entry's folder, also when the entry's recorded name is not its
\* canonical key; a key that was satisfied produces none.
C21_MissingKeysAreRecreated ==
    pc \in PlanPcs
    => \A k \in DOMAIN configData.ExpectedMap :
          LET f == configData.ExpectedMap[k]
          IN  /\ k \in scan.processed => RecreatesOf(k) = {}
              /\ (/\ k \notin scan.processed
                  /\ \E n \in EntriesOf(k, f) : config[f][n].TargetPath # "")
                 => /\ Cardinality(RecreatesOf(k)) = 1
                    /\ \A i \in RecreatesOf(k) : missingShortcuts[i].Folder = f

\* the folders slated for DeleteEmptyFolder
SlatedFolders == {emptyFoldersToDelete[i].Path : i \in 1..Len(emptyFoldersToDelete)}

\* the observed items the plan takes out of their folder: the sources of the
\* planned moves and quarantines
MovedOut == {scan.plannedMoves[i].Source : i \in 1..Len(scan.plannedMoves)}

\* ... and the planned duplicate deletes
DeletedOut == {scan.plannedDeletes[i].Path : i \in 1..Len(scan.plannedDeletes)}

\* the folders a planned move or quarantine puts an item in
ReceivingFolders ==
    {scan.plannedMoves[i].Destination.folder : i \in 1..Len(scan.plannedMoves)}

\* folder f holds no file and no subfolder once the items of the set leaving
\* are gone and the planned moves have arrived
ZeroItemsWithout(f, leaving) ==
    /\ \A x \in files : x.folder = f => x \in leaving
    /\ f \notin ReceivingFolders
    /\ \A g \in dirs \ {Root} : Parent(g) # f

\* C22: when the plan is complete, every folder that is not a key of the
\* config, is not Programs\Startup and holds nothing once the planned moves,
\* quarantines and duplicate deletes are applied is slated for
\* DeleteEmptyFolder, also when all it holds are planned duplicate deletes; and
\* no slated folder is the destination folder of a planned move.
C22_EmptyAfterPlanIsSlated ==
    pc = "planned"
    => /\ \A f \in dirs \ {Root} :
             (/\ f \notin DOMAIN config
              /\ f # ProgramsStartup
              /\ ZeroItemsWithout(f, MovedOut \cup DeletedOut))
             => f \in SlatedFolders
       /\ \A f \in SlatedFolders : f \notin ReceivingFolders

\* every way to start the script on a tree whose Programs\Startup exists and
\* holds no shortcut
InitStartup ==
    /\ NoCalendar
    /\ InitWith(SessionMaxItems,
                {[Auto |-> TRUE, Mode |-> NoMode], [Auto |-> FALSE, Mode |-> NoMode]},
                BOOLEAN, {{ProgramsStartup}})
    /\ faults = FALSE
    /\ consoleWidth = DefaultWidth

SpecStartup == InitStartup /\ [][NextSession]_vars

\* C23: Programs\Startup, empty, is never slated for DeleteEmptyFolder and is
\* never deleted by Enforce, whether the config Enforce loaded has it as a key
\* (a config written by SAVE) or not.
C23_StartupIsNeverDeleted ==
    /\ (currentMode = "ENFORCE" /\ pc \in PlanPcs) => ProgramsStartup \notin SlatedFolders
    /\ ProgramsStartup \in dirs

\* the entries of the config, as <<folder, name>>
ConfigPairs == UNION {{<<f, n>> : n \in DOMAIN config[f]} : f \in DOMAIN config}

\* the lookup key of a config entry named n, as the specification defines it
LookupKeyOf(n) ==
    LET norm == Normalize_ShortcutName(n)
        sharing == {p \in ConfigPairs : Normalize_ShortcutName(p[2]) = norm}
    IN  IF Cardinality(sharing) >= 2 THEN n ELSE norm

\* the folders under which the config lists name n
FoldersListing(n) == {p[1] : p \in {q \in ConfigPairs : q[2] = n}}

\* the folder of S that comes last in the file
LastListed(S) ==
    LET at(f) == CHOOSE i \in 1..Len(FolderOrder) : FolderOrder[i] = f
    IN  CHOOSE f \in S : \A g \in S : at(g) <= at(f)

\* C24 as the specification states it: for every config entry (F, N) the
\* lookup table maps N's lookup key (N itself when two or more entries share
\* its canonical key, the canonical key otherwise) to F.
C24_EveryEntryYieldsItsFolder ==
    pc \in ScanPcs
    => \A p \in ConfigPairs :
          /\ LookupKeyOf(p[2]) \in DOMAIN configData.ExpectedMap
          /\ configData.ExpectedMap[LookupKeyOf(p[2])] = p[1]

\* C24 as the code has it: for every config entry (F, N) the lookup table has
\* N's lookup key, and maps it to F when N is listed under F only; a name
\* listed under several folders has one key, N, which maps to the folder that
\* comes last in the file.
C24_EntryYieldsLastListedFolder ==
    pc \in ScanPcs
    => \A p \in ConfigPairs :
          /\ LookupKeyOf(p[2]) \in DOMAIN configData.ExpectedMap
          /\ configData.ExpectedMap[LookupKeyOf(p[2])] = LastListed(FoldersListing(p[2]))
          /\ FoldersListing(p[2]) = {p[1]}
             => configData.ExpectedMap[LookupKeyOf(p[2])] = p[1]

\* two variants of one canonical key in two folders, each looked up by its
\* full name, in a plan that is complete
C24_Witness ==
    /\ pc = "planned"
    /\ \E p, q \in ConfigPairs :
          /\ p[1] # q[1] /\ p[2] # q[2]
          /\ Normalize_ShortcutName(p[2]) = Normalize_ShortcutName(q[2])
          /\ p[2] # Normalize_ShortcutName(p[2])
          /\ configData.ExpectedMap[p[2]] = p[1]
          /\ configData.ExpectedMap[q[2]] = q[1]

\* while Show_ModeMenu waits in ReadKey (line 53) the operator is free to
\* work in Explorer: an empty folder of the Start Menu is deleted
OperatorDeletesFolder ==
    /\ pc = "menu"
    /\ UNCHANGED <<calVars, parVars, seen>>
    /\ \E f \in dirs \ {Root} :
          /\ ChildPaths(f, files, dirs) = {}
          /\ dirs' = dirs \ {f}
    /\ UNCHANGED <<config, configFile, displayVars, attempted, files, processVars, currentMode,
                   createdFolders, pc, planVars, execVars, faults, runs, historyVars>>

NextOperator ==
    \/ NextSession
    \/ OperatorDeletesFolder

\* a session at the menu with the operator at work between the runs
SpecOperator == InitSession /\ [][NextOperator]_vars

\* C25: after every call of Ensure_Folder the folder exists: the config's
\* folders after Build_ConfigLookupTable (line 601), the destination folder
\* after an iteration of Execute_ShortcutMoves (line 1124), the expected
\* folder after an iteration of Execute_ShortcutRecreations (line 1182); in
\* every run of a session, whatever was deleted between the runs.
C25_EnsuredFolderExists ==
    [][/\ (pc = "loop" /\ pc' = "scan") => \A f \in DOMAIN config \ {Root} : f \in dirs'
       /\ (pc = "exec" /\ phase \in {1, 3})
          => PhaseList(phase)[idx].Destination.folder \in dirs'
       /\ (pc = "exec" /\ phase = 2) => PhaseList(2)[idx].Folder \in dirs']_vars

\* ------------------------------- Scan_StartMenuShortcuts on PowerShell 7
\* lines 196-261 (the parallel branch) and 296-326; $canUseParallel is true
PropertyOrder == <<"Arguments", "Description", "IconLocation", "TargetPath", "WorkingDirectory">>

\* lines 218-227: $details of a shortcut whose link file can be read
DetailsOf(item) ==
    [Folder |-> item.folder, Name |-> item.name,
     TargetPath |-> Details(item.name).TargetPath, Arguments |-> "",
     WorkingDirectory |-> "", IconLocation |-> "", Description |-> ""]

\* lines 229-233: ... and of one whose link file cannot
DetailsWithoutLink(item) == [Folder |-> item.folder, Name |-> item.name]

\* lines 253-259: everything except Folder and Name
PropertiesOf(result) == [k \in DOMAIN result \ {"Folder", "Name"} |-> result[k]]

\* a tree whose folder is started afresh by every shortcut
TreePutFresh(t, folder, name, properties) ==
    [f \in DOMAIN t \cup {folder} |->
        IF f = folder THEN [n \in {name} |-> properties] ELSE t[f]]

\* lines 249-260: $tree[$folder][$name] = $properties
TreePut(t, folder, name, properties) ==
    LET names == IF folder \in DOMAIN t THEN DOMAIN t[folder] ELSE {}
    IN  [f \in DOMAIN t \cup {folder} |->
            IF f = folder
            THEN [n \in names \cup {name} |-> IF n = name THEN properties ELSE t[folder][n]]
            ELSE t[f]]

\* lines 296-308: Programs\Startup joins the tree when it exists on disk
AddSystemFolders(t, d) ==
    IF ProgramsStartup \notin DOMAIN t /\ ProgramsStartup \in d
    THEN [f \in DOMAIN t \cup {ProgramsStartup} |->
            IF f = ProgramsStartup THEN <<>> ELSE t[f]]
    ELSE t

\* lines 310-324: the [ordered] dictionaries, as lists of (Key, Value);
\* Sort-Object puts the keys in FolderOrder, NameOrder, PropertyOrder
SortTree(t) ==
    LET folders == SelectSeq(FolderOrder, LAMBDA f : f \in DOMAIN t)
    IN  [i \in 1..Len(folders) |->
            LET names == SelectSeq(NameOrder, LAMBDA n : n \in DOMAIN t[folders[i]])
            IN  [Key |-> folders[i],
                 Value |-> [k \in 1..Len(names) |->
                    LET shortcutDetails == t[folders[i]][names[k]]
                        props == SelectSeq(PropertyOrder, LAMBDA q : q \in DOMAIN shortcutDetails)
                    IN  [Key |-> names[k],
                         Value |-> [j \in 1..Len(props) |->
                                      [Key |-> props[j], Value |-> shortcutDetails[props[j]]]]]]]]

\* lines 200-205: Get-ChildItem, the empty bag, the pipeline starts
StartScan ==
    /\ pc = "loop" /\ currentMode = "SAVE"
    /\ spc = "idle"
    /\ shortcuts' = files
    /\ results' = {}
    /\ spc' = "parallel"
    /\ UNCHANGED <<startMenuVars, calVars, faults, workers, scanTree, returned>>

\* a free runspace is given the next item of the pipeline; Get-ChildItem's
\* order is any
RunspaceTakes ==
    /\ spc = "parallel"
    /\ \E w \in Runspaces :
          /\ workers[w].step = "idle"
          /\ \E item \in shortcuts :
                /\ workers' = [workers EXCEPT ![w] = [step |-> "read", item |-> item,
                                                       details |-> <<>>]]
                /\ shortcuts' = shortcuts \ {item}
    /\ UNCHANGED <<startMenuVars, calVars, faults, results, scanTree, returned, spc>>

\* lines 210-234: the runspace's own COM object reads the link file
RunspaceReads ==
    /\ spc = "parallel"
    /\ \E w \in Runspaces :
          /\ workers[w].step = "read"
          /\ \E fault \in FaultChoices :
                workers' = [workers EXCEPT ![w] =
                              [step |-> "add", item |-> @.item,
                               details |-> IF fault THEN DetailsWithoutLink(@.item)
                                           ELSE DetailsOf(@.item)]]
    /\ UNCHANGED <<startMenuVars, calVars, faults, shortcuts, results, scanTree, returned, spc>>

\* line 236: ($using:results).Add($details), atomic in a ConcurrentBag
RunspaceAdds ==
    /\ spc = "parallel"
    /\ \E w \in Runspaces :
          /\ workers[w].step = "add"
          /\ results' = results \cup {workers[w].details}
          /\ workers' = [workers EXCEPT ![w] = Idle]
    /\ UNCHANGED <<startMenuVars, calVars, faults, shortcuts, scanTree, returned, spc>>

\* line 241: ForEach-Object -Parallel returns when every runspace is done;
\* line 244: $tree = @{}
EndParallel ==
    /\ spc = "parallel"
    /\ shortcuts = {}
    /\ \A w \in Runspaces : workers[w].step = "idle"
    /\ scanTree' = <<>>
    /\ spc' = "build"
    /\ UNCHANGED <<startMenuVars, calVars, faults, shortcuts, workers, results, returned>>

\* lines 245-261: one turn of foreach ($result in $results); the bag
\* enumerates in an order of its own. results keeps what the foreach has not
\* reached.
BuildTree ==
    /\ spc = "build"
    /\ \E result \in results :
          /\ scanTree' = TreePut(scanTree, result.Folder, result.Name, PropertiesOf(result))
          /\ results' = results \ {result}
    /\ UNCHANGED <<startMenuVars, calVars, faults, shortcuts, workers, returned, spc>>

\* lines 296-326: the system folders, the sort, return $sortedTree
SortAndReturn ==
    /\ spc = "build"
    /\ results = {}
    /\ returned' = SortTree(AddSystemFolders(scanTree, dirs))
    /\ spc' = "done"
    /\ UNCHANGED <<startMenuVars, calVars, faults, shortcuts, workers, results, scanTree>>

\* -Mode SAVE on PowerShell 7, up to the return of Scan_StartMenuShortcuts
InitParallel ==
    /\ NoCalendar
    /\ InitWith(ParallelMaxItems, {[Auto |-> FALSE, Mode |-> "SAVE"]}, {FALSE},
                {{}, {ProgramsStartup}})
    /\ configFile = "missing"
    /\ faults = FALSE
    /\ consoleWidth = DefaultWidth

NextParallel ==
    \/ StartScan
    \/ RunspaceTakes
    \/ RunspaceReads
    \/ RunspaceAdds
    \/ EndParallel
    \/ BuildTree
    \/ SortAndReturn

SpecParallel == InitParallel /\ [][NextParallel]_vars

\* the folders the returned tree must have: those that hold a shortcut, and
\* Programs\Startup when it exists
ScannedFolders ==
    {x.folder : x \in files} \cup (IF ProgramsStartup \in dirs THEN {ProgramsStartup} ELSE {})

\* the keys of a list of (Key, Value), in its order
KeysOf(list) == [i \in 1..Len(list) |-> list[i].Key]

\* C26: whatever the interleaving of the runspaces and the order in which
\* the bag hands out the results, the tree Scan_StartMenuShortcuts returns is
\* the one the scanned shortcuts determine: its folders are the scanned
\* folders in alphabetical order, each once; every folder lists the shortcuts
\* found in it, each once, in alphabetical order; every shortcut carries its
\* five properties in alphabetical order, with the values read from its link.
C26_ParallelScanIsDeterministic ==
    spc = "done"
    => /\ KeysOf(returned) = SelectSeq(FolderOrder, LAMBDA f : f \in ScannedFolders)
       /\ \A i \in 1..Len(returned) :
             /\ KeysOf(returned[i].Value)
                = SelectSeq(NameOrder,
                            LAMBDA n : [folder |-> returned[i].Key, name |-> n] \in files)
             /\ \A k \in 1..Len(returned[i].Value) :
                   LET entry == returned[i].Value[k]
                   IN  /\ KeysOf(entry.Value) = PropertyOrder
                       /\ \A j \in 1..Len(entry.Value) :
                             entry.Value[j].Value
                             = DetailsOf([folder |-> returned[i].Key,
                                          name |-> entry.Key])[entry.Value[j].Key]

\* three shortcuts, two of them in one folder, scanned and returned
C26_Witness ==
    /\ spc = "done"
    /\ Cardinality(files) = 3
    /\ \E x, y \in files : x # y /\ x.folder = y.folder
    /\ \E x, y \in files : x.folder # y.folder
    /\ Len(returned) >= 2

\* the shortcuts of a tree that resolve to lookup key k
ResolvingIn(fs, k) == {x \in fs : MatchKeyOf(x.name) = k}

\* C27: for every lookup key of the config that an observed item resolved
\* to, a shortcut resolving to that key is in the tree after a run of Enforce
\* whose actions all succeeded.
C27_ConfiguredShortcutSurvives ==
    (pc = "after" /\ lastRun = "clean")
    => \A k \in DOMAIN configData.ExpectedMap :
          ResolvingIn(files0, k) # {} => ResolvingIn(files, k) # {}

\* shortcuts of one name in and around a quarantine folder that an earlier
\* run has filled: it left Chrome.lnk and Chrome (1).lnk there
NumberedCandidates ==
    { [folder |-> quarantineFolder, name |-> Chrome],
      [folder |-> quarantineFolder, name |-> NumberedName(Chrome, 1)],
      [folder |-> Root, name |-> Chrome],
      [folder |-> Root, name |-> ChromeV120],
      [folder |-> OtherSub, name |-> Chrome],
      [folder |-> ProgramsDev, name |-> VSCode] }

\* the scheduled task on such a tree
InitNumbered ==
    /\ NoCalendar
    /\ InitFrom({T \in SUBSET NumberedCandidates : Cardinality(T) <= QuarantineMaxItems},
                {[Auto |-> TRUE, Mode |-> NoMode]}, {TRUE}, {{}})
    /\ faults = FALSE
    /\ consoleWidth = DefaultWidth

SpecNumbered == InitNumbered /\ [][Next]_vars

\* C28: in a complete plan no two planned moves (Move or Quarantine) have the
\* same destination path, and no destination path is the path of an observed
\* item that the plan neither moves nor deletes.
C28_NoDestinationCollision ==
    (currentMode = "ENFORCE" /\ pc \in PlanPcs)
    => /\ \A i, j \in 1..Len(scan.plannedMoves) :
             i # j => scan.plannedMoves[i].Destination # scan.plannedMoves[j].Destination
       /\ \A i \in 1..Len(scan.plannedMoves) :
             scan.plannedMoves[i].Destination \in files0
             => scan.plannedMoves[i].Destination \in MovedOut \cup DeletedOut

\* C29: when a run of the sync in which every call succeeded is followed at
\* once by a second run over the same dates, the second run calls insertTask
\* for no event, marks no task completed, leaves the task list as it fetched
\* it and leaves every event's colour as it found it.
C29_SecondRunChangesNothing ==
    (syncRuns = 2 /\ cpc = "done")
    => /\ insertLog = <<>>
       /\ markedCompleted = 0
       /\ taskList = tasks
       /\ calEvents = calEvents0


\* ---------------------------------------------------- the executor's tally
\* the number of actions in the confirmed plan
PlannedActions ==
    PlannedOf("Move") + PlannedOf("Recreate") + PlannedOf("Quarantine")
    + PlannedOf("Delete") + PlannedOf("FolderDelete")

\* C30: when the executor finishes, successCount + errorCount is the number of
\* planned actions, and every attempt was counted once, as a success or as an
\* error.
C30_TallyCoversThePlan ==
    (pc = "after" /\ lastRun \in {"clean", "errors"})
    => /\ successCount + errorCount = PlannedActions
       /\ \A j \in 1..Len(attempted) : attempted[j].outcome \in {"ok", "error"}

====
